---- MODULE Spec2Model ----
(***************************************************************************)
(* bookshelf core: Discogs OAuth 1.0a handshake, collection reconciliation *)
(* and the HTTP handlers that drive them.                                  *)
(*                                                                         *)
(* Collaborators that live outside the repository (the Supabase store, the *)
(* Discogs API, the Fernet codec) are modelled by their contract: a store  *)
(* call either applies its effect or raises, a remote call returns a value *)
(* or raises.  Which of the two happens is an input of the handler.        *)
(***************************************************************************)
EXTENDS Integers, Sequences, FiniteSets, TLC

VARIABLES
    Config,     \* app.config.Config: the three Discogs settings of the deployment
    users,      \* table "users": a set of rows, unique on id
    releases,   \* table "releases": a set of rows, unique on (user_id, discogs_instance_id)
    now,        \* datetime.now(UTC), in minutes
    issued,     \* state tokens get_authorize_url has handed out (held by clients only)
    resp,       \* the response of the last request, with the calls it made
    obs,        \* what the last request was relative to the one before it
    cleared,    \* history: users disconnected and not connected again since
    probe,      \* the last application of a service function: its argument and result
    _search_cache,   \* DiscogsSearchService._search_cache: entries, oldest first
    _release_cache,  \* DiscogsSearchService._release_cache: entries, oldest first
    timer,      \* time.monotonic(), in seconds: the clock of the two caches
    stored,     \* history: per search triple, when the provider last answered it
    runs,       \* requests in progress, each at its next store or cache call
    collection_folders,  \* the provider's side: (user, instance) pairs in Discogs collections
    playlists,  \* table "playlists": a set of rows, unique on id
    tracks,     \* table "playlist_tracks": a set of rows, unique on id
    serial      \* rows the store has inserted into "playlist_tracks" so far

caches == <<_search_cache, _release_cache, timer, stored>>

playlistTables == <<playlists, tracks, serial>>

vars == <<Config, users, releases, now, issued, resp, obs, cleared, probe,
          _search_cache, _release_cache, timer, stored,
          runs, collection_folders, playlists, tracks, serial>>

----------------------------------------------------------------------------
(* Bounds and program constants                                            *)

MaxFetched == 2          \* longest list a remote fetch returns
MaxTime == 11            \* the clock stops here
MaxIssued == 1           \* state tokens handed out in one behaviour
MaxListing == 3          \* longest remote listing a fetch walks
MaxFormats == 2          \* longest list of format entries of one release
MaxPattern == 2          \* releases a long fetched list repeats in turn
MaxRaceTime == 2         \* the clock stops here while syncs run side by side
MaxReplays == 3          \* exchanges attempted in one behaviour
MaxTracks == 3           \* tracks inserted in one behaviour
search_maxsize == 500     \* TTLCache(maxsize=500, ...)
search_ttl == 3600        \* TTLCache(..., ttl=3600), seconds
release_maxsize == 1000   \* TTLCache(maxsize=1000, ...)
release_ttl == 86400      \* TTLCache(..., ttl=86400), seconds
StateLifetime == 10      \* timedelta(minutes=10)
batch_size == 50         \* batch_size = 50

UserIds == {"u1", "u2"}
InstanceIds == {"i1", "i2", "i3"}
\* The threads that serve requests side by side.
RunNames == {"A", "B"}

NULL == "NULL"

\* Python truthiness of an optional string: None and "" are falsy.
Truthy(v) == v \notin {NULL, ""}

Min(a, b) == IF a < b THEN a ELSE b

Range(s) == {s[k] : k \in 1..Len(s)}

\* All sequences over S of length at most n.
SeqsUpTo(S, n) == UNION {[1..k -> S] : k \in 0..n}

\* All orders in which the elements of a finite set can be enumerated.
Perms(S) == {p \in [1..Cardinality(S) -> S] : Range(p) = S}

----------------------------------------------------------------------------
(* Config                                                                  *)

is_discogs_configured ==
    /\ Truthy(Config.DISCOGS_CONSUMER_KEY)
    /\ Truthy(Config.DISCOGS_CONSUMER_SECRET)
    /\ Truthy(Config.STATE_ENCRYPTION_KEY)

----------------------------------------------------------------------------
(* The releases table                                                      *)

\* The primary key the database gives a row on insert.  Keys are only ever
\* compared for equality; the model names a row after its unique key.
RowId(user_id, instance_id) == <<user_id, instance_id>>

UserRows(table, user_id) == {r \in table : r.user_id = user_id}

UserInstanceIds(table, user_id) ==
    {r.discogs_instance_id : r \in UserRows(table, user_id)}

\* The unique constraint on (user_id, discogs_instance_id), and the primary key.
UniqueKeys(table) ==
    \A r1, r2 \in table :
        (\/ r1.id = r2.id
         \/ (r1.user_id = r2.user_id
             /\ r1.discogs_instance_id = r2.discogs_instance_id)) => r1 = r2

\* An upsert that inserts a missing row and leaves a row it finds as it is.
Upsert_keepFirst(table, data) ==
    LET hit == {r \in table : /\ r.user_id = data.user_id
                              /\ r.discogs_instance_id = data.discogs_instance_id}
    IN  IF hit = {}
        THEN table \cup {[id |-> RowId(data.user_id, data.discogs_instance_id),
                          user_id |-> data.user_id,
                          discogs_instance_id |-> data.discogs_instance_id,
                          updated_at |-> data.updated_at]}
        ELSE table

\* .upsert(release_data, on_conflict="user_id,discogs_instance_id")
Upsert(table, data) ==
    LET hit == {r \in table : /\ r.user_id = data.user_id
                              /\ r.discogs_instance_id = data.discogs_instance_id}
    IN  IF hit = {}
        THEN table \cup {[id |-> RowId(data.user_id, data.discogs_instance_id),
                          user_id |-> data.user_id,
                          discogs_instance_id |-> data.discogs_instance_id,
                          updated_at |-> data.updated_at]}
        ELSE (table \ hit) \cup {[r EXCEPT !.updated_at = data.updated_at] : r \in hit}

\* A delete that matches on the instance id alone, whoever owns the row.
DeleteById_instance(table, release_id) ==
    {r \in table : r.discogs_instance_id # release_id[2]}

\* .delete().eq("id", release_id)
DeleteById(table, release_id) == {r \in table : r.id # release_id}

----------------------------------------------------------------------------
(* CollectionService.sync_to_database                                      *)

\* A slice that loses the last release of every batch.
Batch_short(rels, i) == SubSeq(rels, i + 1, Min(i + batch_size, Len(rels)) - 1)

\* for i in range(0, len(releases), batch_size): batch = releases[i : i + batch_size]
Batch(rels, i) == SubSeq(rels, i + 1, Min(i + batch_size, Len(rels)))

\* A run that stops after its first batch.
BatchedOrder_firstOnly(rels, i) == Batch(rels, i)

RECURSIVE BatchedOrder(_, _)
\* The releases in the order the nested loops visit them, from offset i on.
BatchedOrder(rels, i) ==
    IF i >= Len(rels) THEN <<>>
    ELSE Batch(rels, i) \o BatchedOrder(rels, i + batch_size)

RECURSIVE UpsertRange(_, _, _, _, _, _)
\* The table after the upserts of items lo..hi, in that order (the first half
\* of the range, then the second on its result).
UpsertRange(table, user_id, items, t, lo, hi) ==
    IF lo > hi THEN table
    ELSE IF lo = hi
    THEN Upsert(table, [user_id |-> user_id,
                        discogs_instance_id |-> items[lo].discogs_instance_id,
                        updated_at |-> t])
    ELSE CHOOSE done \in
             {UpsertRange(half, user_id, items, t, ((lo + hi) \div 2) + 1, hi) :
                 half \in {UpsertRange(table, user_id, items, t, lo, (lo + hi) \div 2)}} : TRUE

\* Upserts that take effect only when the whole list went through.
UpsertFirst_transaction(table, user_id, items, t, m) ==
    IF m < Len(items) THEN table ELSE UpsertRange(table, user_id, items, t, 1, m)

\* The table after the first m upserts of the run.
UpsertFirst(table, user_id, items, t, m) == UpsertRange(table, user_id, items, t, 1, m)

\* A run whose delete loop does nothing.
DeleteFirst_none(table, ids_to_delete, d) == table

RECURSIVE DeleteFirst(_, _, _)
\* The table after the first d deletes of the run.
DeleteFirst(table, ids_to_delete, d) ==
    IF d = 0 THEN table
    ELSE DeleteById(DeleteFirst(table, ids_to_delete, d - 1), ids_to_delete[d])

\* A classification that takes every release for a new one.
IsNew_always(item, existing_instance_ids) == TRUE

\* is_new = instance_id not in existing_instance_ids
IsNew(item, existing_instance_ids) ==
    item.discogs_instance_id \notin existing_instance_ids

\* A run that finds nothing to remove.
ToRemove_none(table, user_id, rels) == {}

\* to_remove = existing_instance_ids - new_instance_ids
ToRemove(table, user_id, rels) ==
    UserInstanceIds(table, user_id) \ {rels[k].discogs_instance_id : k \in 1..Len(rels)}

\* The orders in which "for iid in to_remove" can visit a Python set.
DeleteOrders(table, user_id, rels) == Perms(ToRemove(table, user_id, rels))

\* sync_to_database(user_id, releases) at time t.  fail = 0: no store call
\* raises; fail = k: the k-th store call of the run raises (the snapshot select
\* is the first, then one upsert per release, then one delete per row to
\* remove).  order is the order the loop over to_remove visits the set in.
sync_to_database(table, user_id, rels, t, fail, order) ==
    LET rows == UserRows(table, user_id)
        existing_map == [iid \in UserInstanceIds(table, user_id) |->
                            (CHOOSE r \in rows : r.discogs_instance_id = iid).id]
        existing_instance_ids == DOMAIN existing_map
        to_remove == ToRemove(table, user_id, rels)
        items == BatchedOrder(rels, 0)
        ids_to_delete == [k \in 1..Len(order) |-> existing_map[order[k]]]
        n == Len(items)
        nd == IF to_remove = {} THEN 0 ELSE Len(ids_to_delete)
        all_calls == <<"releases.select">>
                     \o [k \in 1..n |-> "releases.upsert"]
                     \o [k \in 1..nd |-> "releases.delete"]
        raised == fail >= 1 /\ fail <= Len(all_calls)
        \* upserts and deletes that were applied before the run ended
        m == IF ~raised THEN n ELSE IF fail = 1 THEN 0 ELSE Min(fail - 2, n)
        d == IF ~raised THEN nd ELSE IF fail <= 1 + n THEN 0 ELSE fail - n - 2
        afterUpserts == UpsertFirst(table, user_id, items, t, m)
        afterDeletes == DeleteFirst(afterUpserts, ids_to_delete, d)
        added == Cardinality({k \in 1..m : IsNew(items[k], existing_instance_ids)})
        updated == Cardinality({k \in 1..m : ~IsNew(items[k], existing_instance_ids)})
    IN  [raised |-> raised,
         table |-> afterDeletes,
         existing |-> existing_instance_ids,
         calls |-> SubSeq(all_calls, 1, IF raised THEN fail ELSE Len(all_calls)),
         summary |-> [added |-> added, updated |-> updated,
                      removed |-> d, total |-> Len(rels)]]

----------------------------------------------------------------------------
(* Responses                                                               *)

None == <<>>
Some(x) == <<x>>

\* The response of a request: the status and detail the client gets, and what
\* the handler did on the way (the collaborator calls it made, in order).
Response(op, user_id, status, detail, calls) ==
    [op |-> op, user |-> user_id, status |-> status, detail |-> detail,
     calls |-> calls,
     body |-> None,        \* the SyncSummary of a 200 sync
     fetched |-> None,     \* the list a sync had fetched when it reconciled
     state |-> None,       \* the state token a callback presented
     exchange |-> None]    \* the arguments of the provider's verifier exchange

NoResponse == Response("none", "none", 0, "", <<>>)

IsSyncOk(r) == r.op = "sync" /\ r.status = 200

\* Elements of a fetched list have pairwise distinct instance ids.
DistinctIds(rels) ==
    \A j, k \in 1..Len(rels) :
        rels[j].discogs_instance_id = rels[k].discogs_instance_id => j = k

FetchedIds(rels) == {rels[k].discogs_instance_id : k \in 1..Len(rels)}

\* How the request answered by r follows the one answered by old (existing:
\* the instance ids the user of r held when the request arrived):
\*   repeat: both are successful syncs of the same user with the same fetched list;
\*   recovered: r is a successful sync and old a sync of the same user that
\*        failed after it had written to the store;
\*   e2e: position in the scenario "empty store, fetch 2 distinct; same 2 again;
\*        then only 1 of the 2" (0 when the request is not part of it).
Observe(old, oldObs, r, existing) ==
    LET repeat == /\ IsSyncOk(old) /\ IsSyncOk(r)
                  /\ old.user = r.user /\ old.fetched = r.fetched
        first == /\ IsSyncOk(r) /\ existing = {}
                 /\ Len(r.fetched[1]) = 2 /\ DistinctIds(r.fetched[1])
        third == /\ IsSyncOk(old) /\ IsSyncOk(r) /\ oldObs.e2e = 2
                 /\ old.user = r.user
                 /\ Len(r.fetched[1]) = 1
                 /\ FetchedIds(r.fetched[1]) \subseteq FetchedIds(old.fetched[1])
        recovered == /\ IsSyncOk(r) /\ old.op = "sync" /\ old.status = 500
                     /\ old.user = r.user /\ Len(old.calls) > 3
    IN  [repeat |-> repeat,
         recovered |-> recovered,
         e2e |-> IF third THEN 3
                 ELSE IF repeat /\ oldObs.e2e = 1 THEN 2
                 ELSE IF first THEN 1
                 ELSE 0]

Respond(r) ==
    /\ resp' = r
    /\ obs' = Observe(resp, obs, r, UserInstanceIds(releases, r.user))

----------------------------------------------------------------------------
(* The users table                                                         *)

UserRow(user_id) == {r \in users : r.id = user_id}

Connected(user_id) ==
    \E r \in UserRow(user_id) :
        Truthy(r.discogs_access_token) /\ Truthy(r.discogs_access_token_secret)

----------------------------------------------------------------------------
(* CollectionService: extraction of a collection item                      *)

\* dict.get(key) of a key the dict does not hold, before any default.
ABSENT == "ABSENT"

\* dict.get(key): None for a key the dict does not hold.
Get(v) == IF v = ABSENT THEN NULL ELSE v

\* Python's "a or b".
Or(a, b) == IF Truthy(a) THEN a ELSE b

\* What a function call comes to: a value, Python's None, or an exception.
Returned(v) == [kind |-> "value", value |-> v]
ReturnedNone == [kind |-> "none", value |-> <<>>]
Raised == [kind |-> "raise", value |-> <<>>]

\* The record of a release, as far as the fields studied here go.
ReleaseData(instance_id, cover_url, format_str, catalog_number) ==
    [discogs_instance_id |-> instance_id,
     cover_image_url |-> cover_url,
     format |-> format_str,
     catalog_number |-> catalog_number]

\* int(qty) of the quantities the provider sends.
IntOf(qty) ==
    IF qty = "0" THEN 0 ELSE IF qty = "1" THEN 1 ELSE IF qty = "2" THEN 2 ELSE 3

\* A format entry that is prefixed from quantity 1 on.
FormatPart_atLeastOne(fmt) ==
    LET qty == IF fmt.qty = ABSENT THEN "1" ELSE fmt.qty
        name == IF fmt.name = ABSENT THEN "" ELSE fmt.name
    IN  IF Truthy(qty) /\ IntOf(qty) >= 1 THEN <<qty, "x", name>> ELSE <<name>>

\* The part one format entry contributes: f"{qty}x{name}" or name.
FormatPart(fmt) ==
    LET qty == IF fmt.qty = ABSENT THEN "1" ELSE fmt.qty
        name == IF fmt.name = ABSENT THEN "" ELSE fmt.name
    IN  IF Truthy(qty) /\ IntOf(qty) > 1 THEN <<qty, "x", name>> ELSE <<name>>

RECURSIVE FormatParts(_, _)
\* format_parts after the first n entries of the loop.
FormatParts(formats, n) ==
    IF n = 0 THEN <<>>
    ELSE Append(FormatParts(formats, n - 1), FormatPart(formats[n]))

RECURSIVE Join(_, _)
\* sep.join(parts), a text being the sequence of its pieces.
Join(sep, parts) ==
    IF parts = <<>> THEN <<>>
    ELSE IF Len(parts) = 1 THEN parts[1]
    ELSE parts[1] \o <<sep>> \o Join(sep, Tail(parts))

\* _extract_format_string(formats): NULL for no formats.
_extract_format_string(formats) ==
    IF formats = <<>> THEN NULL
    ELSE LET format_parts == FormatParts(formats, Len(formats))
         IN  IF format_parts # <<>> THEN Join(", ", format_parts) ELSE NULL

\* catalog_number of a label list: catno if catno else None.
CatalogNumber(labels) ==
    IF labels = <<>> THEN NULL
    ELSE IF Truthy(Get(labels[1].catno)) THEN labels[1].catno ELSE NULL

\* _extract_from_basic_info(item, info).  It raises when a field of info
\* has a type the code does not expect (malformed).
_extract_from_basic_info(item, info) ==
    IF info.malformed THEN Raised
    ELSE Returned(ReleaseData(item.id,
                              Or(Get(info.cover_image), Get(info.thumb)),
                              _extract_format_string(info.formats),
                              CatalogNumber(info.labels)))

\* The primary image of a list, if any (as a set of at most one index).
PrimaryImage(images) ==
    LET at == {k \in 1..Len(images) : images[k].type = "primary"}
    IN  IF at = {} THEN {} ELSE {CHOOSE k \in at : \A j \in at : k <= j}

\* _extract_from_release(item, release).
_extract_from_release(item, release) ==
    IF release.malformed THEN Raised
    ELSE LET cover_url ==
                 IF release.images = <<>> THEN NULL
                 ELSE IF PrimaryImage(release.images) # {}
                      THEN release.images[CHOOSE k \in PrimaryImage(release.images) : TRUE].uri
                      ELSE release.images[1].uri
             format_str ==
                 IF release.formats = <<>> THEN NULL
                 ELSE _extract_format_string(release.formats)
         IN  Returned(ReleaseData(item.id, cover_url, format_str,
                                  CatalogNumber(release.labels)))

\* _extract_release_data(item): the inline summary when the listing carries
\* one, otherwise the release behind the item; a failure of the second path
\* is caught here and comes back as None.
_extract_release_data(item) ==
    IF item.info # None
    THEN _extract_from_basic_info(item, item.info[1])
    ELSE IF ~item.release.ok THEN ReturnedNone
    ELSE IF _extract_from_release(item, item.release).kind = "raise" THEN ReturnedNone
    ELSE _extract_from_release(item, item.release)

\* A fetch that gives up at the first item it cannot extract.
fetch_discogs_collection_abort(collection) ==
    LET bad == {k \in 1..Len(collection) :
                    _extract_release_data(collection[k]).kind # "value"}
        stop == IF bad = {} THEN Len(collection) + 1
                ELSE CHOOSE k \in bad : \A j \in bad : k <= j
    IN  [releases |-> [k \in 1..(stop - 1) |-> _extract_release_data(collection[k]).value],
         skipped |-> IF bad = {} THEN 0 ELSE 1]

RECURSIVE FetchLoop(_, _)
\* releases and skipped after the first n items of the listing.
FetchLoop(collection, n) ==
    IF n = 0 THEN [releases |-> <<>>, skipped |-> 0]
    ELSE LET before == FetchLoop(collection, n - 1)
             release_data == _extract_release_data(collection[n])
         IN  IF release_data.kind = "value"
             THEN [before EXCEPT !.releases = Append(@, release_data.value)]
             ELSE [before EXCEPT !.skipped = @ + 1]

\* fetch_discogs_collection, the listing having been obtained: the loop over
\* the items.  (A failure to obtain the listing is the 502 of the endpoint.)
fetch_discogs_collection(collection) == FetchLoop(collection, Len(collection))

----------------------------------------------------------------------------
(* POST /collection/sync                                                   *)

Items == [discogs_instance_id : InstanceIds]

\* What fetch_discogs_collection can return: any list of release records.
FetchedLists == SeqsUpTo(Items, MaxFetched)

\* A check that looks at the access token only.
require_discogs_connected_tokenOnly(user_id) ==
    IF UserRow(user_id) = {} THEN 404
    ELSE IF \E r \in UserRow(user_id) : ~Truthy(r.discogs_access_token)
         THEN 400
         ELSE 200

\* _require_discogs_connected: 404 without a user row, 400 without a token or
\* a secret, otherwise the row.
require_discogs_connected(user_id) ==
    IF UserRow(user_id) = {} THEN 404
    ELSE IF \E r \in UserRow(user_id) :
                ~Truthy(r.discogs_access_token) \/ ~Truthy(r.discogs_access_token_secret)
         THEN 400
         ELSE 200

\* The store call of sync_to_database that raises (0: none).  The order of
\* the delete loop shows only when a delete raises.
FailPoints(table, user_id, rels) ==
    0..(1 + Len(rels) + Cardinality(ToRemove(table, user_id, rels)))

\* sync_collection once the user is known to be connected, the remote fetch
\* having returned rels: sync_to_database, then the summary or the 500.
SyncFetched(user_id, rels, fail, order) ==
    LET run == sync_to_database(releases, user_id, rels, now, fail, order)
        pre == <<"users.select", "discogs.fetch">>
    IN  IF run.raised
        THEN /\ Respond([Response("sync", user_id, 500,
                                  "Failed to sync collection", pre \o run.calls)
                            EXCEPT !.fetched = Some(rels)])
             /\ releases' = run.table
        ELSE /\ Respond([Response("sync", user_id, 200, "", pre \o run.calls)
                            EXCEPT !.fetched = Some(rels), !.body = Some(run.summary)])
             /\ releases' = run.table

\* The handler.  lookup_fails: the select on "users" raises, which no except
\* clause of the handler covers, so the framework answers 500.
sync_collection(user_id) ==
    /\ IF ~is_discogs_configured
       THEN /\ Respond(Response("sync", user_id, 503,
                                "Discogs integration is not configured", <<>>))
            /\ UNCHANGED releases
       ELSE \/ /\ Respond(Response("sync", user_id, 500, "Internal Server Error",
                                   <<"users.select">>))
               /\ UNCHANGED releases
            \/ /\ require_discogs_connected(user_id) = 404
               /\ Respond(Response("sync", user_id, 404, "User not found",
                                   <<"users.select">>))
               /\ UNCHANGED releases
            \/ /\ require_discogs_connected(user_id) = 400
               /\ Respond(Response("sync", user_id, 400,
                                   "Discogs account not connected. Please connect first.",
                                   <<"users.select">>))
               /\ UNCHANGED releases
            \/ /\ require_discogs_connected(user_id) = 200
               \* fetch_discogs_collection raises CollectionSyncError
               /\ Respond(Response("sync", user_id, 502,
                                   "Failed to fetch Discogs collection",
                                   <<"users.select", "discogs.fetch">>))
               /\ UNCHANGED releases
            \/ /\ require_discogs_connected(user_id) = 200
               /\ \E rels \in FetchedLists :
                  \E fail \in FailPoints(releases, user_id, rels) :
                  \E order \in IF fail > 1 + Len(rels)
                               THEN DeleteOrders(releases, user_id, rels)
                               ELSE {CHOOSE o \in DeleteOrders(releases, user_id, rels) : TRUE} :
                      SyncFetched(user_id, rels, fail, order)
    /\ UNCHANGED <<Config, users, now, issued>>

----------------------------------------------------------------------------
(* DiscogsService: the state codec                                         *)

\* _create_fernet: the Fernet key derived from STATE_ENCRYPTION_KEY (PBKDF2,
\* SHA-256, static salt).
FernetKey(secret) == <<"pbkdf2-sha256", "bookshelf-discogs-oauth", secret>>

\* Fernet.encrypt(key, data): the token bytes.  They authenticate data under
\* key; intact says that no byte was changed since.
FernetEncrypt(key, data) == [key |-> key, data |-> data, intact |-> TRUE]

\* The URL-safe base64 text of token bytes, as encrypt returns it.
B64Encode(bytes) == [form |-> "canonical", bytes |-> bytes]

\* base64.urlsafe_b64decode, which Fernet.decrypt applies to the text: it
\* skips characters outside the alphabet and ignores the unused bits of the
\* last character, so a non-canonical text decodes to the same bytes.  A text
\* that is no base64 at all decodes to nothing that parses as a token.
B64Decode(text) == [ok |-> text.form # "garbage", bytes |-> text.bytes]

\* A decryption that does not verify the signature over the token bytes.
FernetDecrypt_unsigned(key, text) ==
    [ok |-> B64Decode(text).ok /\ B64Decode(text).bytes.key = key,
     data |-> B64Decode(text).bytes.data]

\* Fernet.decrypt(key, text) followed by json.loads: the data, or a failure
\* (InvalidToken) when the text does not decode, the bytes were not produced
\* under key, or a byte of them was changed.
FernetDecrypt(key, text) ==
    LET decoded == B64Decode(text)
    IN  [ok |-> decoded.ok /\ decoded.bytes.key = key /\ decoded.bytes.intact,
         data |-> decoded.bytes.data]

\* What the provider hands out: the n-th request token pair, the access token
\* pair it exchanges it for, the username behind an access token.
RequestTokenNames == <<"rt1", "rt2", "rt3">>
RequestSecretNames == <<"rs1", "rs2", "rs3">>
NonceNames == <<"nonce1", "nonce2", "nonce3">>

AccessPairFor(request_token) ==
    IF request_token = "rt1" THEN <<"at1", "as1">>
    ELSE IF request_token = "rt2" THEN <<"at2", "as2">>
    ELSE <<"at3", "as3">>

UsernameFor(access_token) == IF access_token = "at1" THEN "name1" ELSE "name2"

\* A state that expires the moment it is issued.
get_authorize_url_noLifetime(request_token, request_secret, nonce, t) ==
    [form |-> "canonical",
     bytes |-> [key |-> FernetKey(Config.STATE_ENCRYPTION_KEY), intact |-> TRUE,
                data |-> [request_token |-> request_token,
                          request_secret |-> request_secret,
                          nonce |-> nonce, expires_at |-> t]]]

\* get_authorize_url at time t, the provider having returned the request
\* token pair and secrets.token_hex the nonce: the encrypted state.
get_authorize_url(request_token, request_secret, nonce, t) ==
    LET state_data == [request_token |-> request_token,
                       request_secret |-> request_secret,
                       nonce |-> nonce,
                       expires_at |-> t + StateLifetime]
    IN  B64Encode(FernetEncrypt(FernetKey(Config.STATE_ENCRYPTION_KEY), state_data))

\* An expiry check that takes the boundary for expired.
Expired_inclusive(t, expires_at) == t >= expires_at

\* now > expires_at
Expired(t, expires_at) == t > expires_at

InvalidStateMsg == "Invalid state parameter"
ExpiredStateMsg_same == "Invalid state parameter"
ExpiredStateMsg == "Authorization session expired. Please try again."
ExchangeFailedMsg == "Failed to exchange tokens"
IdentityFailedMsg == "Failed to fetch user identity"

\* An exchange that takes a state token once: a token an earlier call got
\* as far as the provider with is refused.
exchange_tokens_once(oauth_verifier, encrypted_state, t, provider_accepts) ==
    LET dec == FernetDecrypt(FernetKey(Config.STATE_ENCRYPTION_KEY), encrypted_state)
        state_data == dec.data
        attempt == Some([request_token |-> state_data.request_token,
                         request_secret |-> state_data.request_secret,
                         oauth_verifier |-> oauth_verifier])
    IN  IF ~dec.ok \/ (probe.fn = "exchange_tokens" /\ probe.arg.bytes = encrypted_state.bytes)
        THEN [error |-> InvalidStateMsg, exchange |-> None, access |-> <<NULL, NULL>>]
        ELSE IF Expired(t, state_data.expires_at)
        THEN [error |-> ExpiredStateMsg, exchange |-> None, access |-> <<NULL, NULL>>]
        ELSE IF ~provider_accepts
        THEN [error |-> ExchangeFailedMsg, exchange |-> attempt, access |-> <<NULL, NULL>>]
        ELSE [error |-> "", exchange |-> attempt,
              access |-> AccessPairFor(state_data.request_token)]

\* exchange_tokens(oauth_verifier, encrypted_state) at time t.
\* provider_accepts: get_access_token returns a pair rather than raising.
\* error = "" when the access pair is returned, else the DiscogsOAuthError.
exchange_tokens(oauth_verifier, encrypted_state, t, provider_accepts) ==
    LET dec == FernetDecrypt(FernetKey(Config.STATE_ENCRYPTION_KEY), encrypted_state)
        state_data == dec.data
        attempt == Some([request_token |-> state_data.request_token,
                         request_secret |-> state_data.request_secret,
                         oauth_verifier |-> oauth_verifier])
    IN  IF ~dec.ok
        THEN [error |-> InvalidStateMsg, exchange |-> None, access |-> <<NULL, NULL>>]
        ELSE IF Expired(t, state_data.expires_at)
        THEN [error |-> ExpiredStateMsg, exchange |-> None, access |-> <<NULL, NULL>>]
        ELSE IF ~provider_accepts
        THEN [error |-> ExchangeFailedMsg, exchange |-> attempt, access |-> <<NULL, NULL>>]
        ELSE [error |-> "", exchange |-> attempt,
              access |-> AccessPairFor(state_data.request_token)]

----------------------------------------------------------------------------
(* POST /oauth/authorize                                                   *)

\* The handler: 503 when not configured, 500 when get_authorize_url raises
\* (the provider call failed), otherwise the state token goes to the client.
discogs_authorize(user_id) ==
    /\ IF ~is_discogs_configured
       THEN /\ Respond(Response("authorize", user_id, 503,
                                "Discogs integration is not configured", <<>>))
            /\ UNCHANGED issued
       ELSE \/ /\ Respond(Response("authorize", user_id, 500,
                                   "Failed to initiate Discogs authorization",
                                   <<"discogs.get_authorize_url">>))
               /\ UNCHANGED issued
            \/ /\ Cardinality(issued) < MaxIssued
               /\ LET n == Cardinality(issued) + 1
                      state == get_authorize_url(RequestTokenNames[n],
                                                 RequestSecretNames[n],
                                                 NonceNames[n], now)
                  IN  /\ issued' = issued \cup {state}
                      /\ Respond([Response("authorize", user_id, 200, "",
                                           <<"discogs.get_authorize_url">>)
                                    EXCEPT !.state = Some(state)])
    /\ UNCHANGED <<Config, users, releases, now>>

----------------------------------------------------------------------------
(* POST /oauth/callback                                                    *)

\* A key the deployment does not hold, and what a client can build with it.
ForgedState ==
    B64Encode(FernetEncrypt(FernetKey("attacker"),
                            [request_token |-> "rtX", request_secret |-> "rsX",
                             nonce |-> "nonceX",
                             expires_at |-> MaxTime + StateLifetime]))

GarbageState ==
    [form |-> "garbage",
     bytes |-> [key |-> <<>>, intact |-> FALSE,
                data |-> [request_token |-> "", request_secret |-> "",
                          nonce |-> "", expires_at |-> 0]]]

\* The texts a client holding state can send in its place: state itself,
\* another text of the same bytes, and state with a byte of the token changed
\* (here one that would postpone the expiry, were it believed).
VariantsOf(state) ==
    {state,
     [state EXCEPT !.form = "noncanonical"],
     [state EXCEPT !.bytes.intact = FALSE,
                   !.bytes.data.expires_at = MaxTime + StateLifetime]}

\* Every state a callback request can carry.
States == UNION {VariantsOf(state) : state \in issued} \cup {ForgedState, GarbageState}

\* The part of the handler after require_discogs_configured, for one state
\* and one answer of the provider to get_access_token.  get_user_identity
\* returns the username or raises; the update of "users" matches the row,
\* matches none, or raises.
\* A callback that stores the exchanged pair before it has the username.
Callback_storeEarly(user_id, oauth_verifier, state, provider_accepts) ==
    LET ex == exchange_tokens(oauth_verifier, state, now, provider_accepts)
        r0 == [Response("callback", user_id, 400, ex.error, <<>>)
                  EXCEPT !.state = Some(state), !.exchange = ex.exchange]
        c1 == IF ex.exchange = None THEN <<>> ELSE <<"discogs.get_access_token">>
        c2 == c1 \o <<"discogs.identity">>
        c3 == c2 \o <<"users.update">>
        connected == (users \ UserRow(user_id)) \cup
                       {[r EXCEPT !.discogs_username = UsernameFor(ex.access[1]),
                                  !.discogs_access_token = ex.access[1],
                                  !.discogs_access_token_secret = ex.access[2],
                                  !.discogs_connected_at = Some(now)] :
                           r \in UserRow(user_id)}
    IN  IF ex.error # ""
        THEN /\ Respond([r0 EXCEPT !.calls = c1])
             /\ UNCHANGED users
        ELSE \/ /\ Respond([r0 EXCEPT !.detail = IdentityFailedMsg, !.calls = c2])
                /\ users' = {[r EXCEPT !.discogs_username = NULL] : r \in connected}
             \/ /\ Respond([r0 EXCEPT !.status = 500,
                                      !.detail = "Failed to complete Discogs authorization",
                                      !.calls = c3])
                /\ UNCHANGED users
             \/ /\ UserRow(user_id) = {}
                /\ Respond([r0 EXCEPT !.status = 404, !.detail = "User not found",
                                      !.calls = c3])
                /\ UNCHANGED users
             \/ /\ UserRow(user_id) # {}
                /\ users' = connected
                /\ Respond([r0 EXCEPT !.status = 200, !.detail = "", !.calls = c3])

\* A callback that takes a state token only from the user whose authorize
\* request it was issued to.
Callback_bound(user_id, oauth_verifier, state, provider_accepts) ==
    LET ex == exchange_tokens(oauth_verifier, state, now, provider_accepts)
        r0 == [Response("callback", user_id, 400, ex.error, <<>>)
                  EXCEPT !.state = Some(state), !.exchange = ex.exchange]
        c1 == IF ex.exchange = None THEN <<>> ELSE <<"discogs.get_access_token">>
        c2 == c1 \o <<"discogs.identity">>
        c3 == c2 \o <<"users.update">>
        foreign == /\ probe.fn = "authorize"
                   /\ \E held \in probe.out : held[1] = state.bytes /\ held[2] # user_id
    IN  IF foreign
        THEN /\ Respond([r0 EXCEPT !.detail = InvalidStateMsg, !.exchange = None])
             /\ UNCHANGED users
        ELSE IF ex.error # ""
        THEN /\ Respond([r0 EXCEPT !.calls = c1])
             /\ UNCHANGED users
        ELSE \/ /\ Respond([r0 EXCEPT !.detail = IdentityFailedMsg, !.calls = c2])
                /\ UNCHANGED users
             \/ /\ Respond([r0 EXCEPT !.status = 500,
                                      !.detail = "Failed to complete Discogs authorization",
                                      !.calls = c3])
                /\ UNCHANGED users
             \/ /\ UserRow(user_id) = {}
                /\ Respond([r0 EXCEPT !.status = 404, !.detail = "User not found",
                                      !.calls = c3])
                /\ UNCHANGED users
             \/ /\ UserRow(user_id) # {}
                /\ users' = (users \ UserRow(user_id)) \cup
                       {[r EXCEPT !.discogs_username = UsernameFor(ex.access[1]),
                                  !.discogs_access_token = ex.access[1],
                                  !.discogs_access_token_secret = ex.access[2],
                                  !.discogs_connected_at = Some(now)] :
                           r \in UserRow(user_id)}
                /\ Respond([r0 EXCEPT !.status = 200, !.detail = "", !.calls = c3])

Callback(user_id, oauth_verifier, state, provider_accepts) ==
    LET ex == exchange_tokens(oauth_verifier, state, now, provider_accepts)
        r0 == [Response("callback", user_id, 400, ex.error, <<>>)
                  EXCEPT !.state = Some(state), !.exchange = ex.exchange]
        c1 == IF ex.exchange = None THEN <<>> ELSE <<"discogs.get_access_token">>
        c2 == c1 \o <<"discogs.identity">>
        c3 == c2 \o <<"users.update">>
    IN  IF ex.error # ""
        THEN /\ Respond([r0 EXCEPT !.calls = c1])
             /\ UNCHANGED users
        ELSE \/ /\ Respond([r0 EXCEPT !.detail = IdentityFailedMsg, !.calls = c2])
                /\ UNCHANGED users
             \/ /\ Respond([r0 EXCEPT !.status = 500,
                                      !.detail = "Failed to complete Discogs authorization",
                                      !.calls = c3])
                /\ UNCHANGED users
             \/ /\ UserRow(user_id) = {}
                /\ Respond([r0 EXCEPT !.status = 404, !.detail = "User not found",
                                      !.calls = c3])
                /\ UNCHANGED users
             \/ /\ UserRow(user_id) # {}
                /\ users' = (users \ UserRow(user_id)) \cup
                       {[r EXCEPT !.discogs_username = UsernameFor(ex.access[1]),
                                  !.discogs_access_token = ex.access[1],
                                  !.discogs_access_token_secret = ex.access[2],
                                  !.discogs_connected_at = Some(now)] :
                           r \in UserRow(user_id)}
                /\ Respond([r0 EXCEPT !.status = 200, !.detail = "", !.calls = c3])

discogs_callback(user_id) ==
    /\ IF ~is_discogs_configured
       THEN /\ Respond(Response("callback", user_id, 503,
                                "Discogs integration is not configured", <<>>))
            /\ UNCHANGED users
       ELSE \E state \in States, provider_accepts \in BOOLEAN :
                Callback(user_id, "verifier", state, provider_accepts)
    /\ UNCHANGED <<Config, releases, now, issued>>

----------------------------------------------------------------------------
(* DELETE /oauth/disconnect                                                *)

\* A disconnect that forgets the username but keeps the token pair.
discogs_disconnect_keepTokens(user_id) ==
    /\ users' = (users \ UserRow(user_id)) \cup
           {[r EXCEPT !.discogs_username = NULL,
                      !.discogs_connected_at = None] : r \in UserRow(user_id)}
    /\ Respond(Response("disconnect", user_id,
                        IF UserRow(user_id) = {} THEN 404 ELSE 200,
                        IF UserRow(user_id) = {} THEN "User not found" ELSE "",
                        <<"users.update">>))
    /\ UNCHANGED <<Config, releases, now, issued>>

\* store_fails: the update raises (500).  No row matched: 404.
discogs_disconnect(user_id) ==
    /\ \E store_fails \in BOOLEAN :
        IF store_fails
        THEN /\ Respond(Response("disconnect", user_id, 500,
                                 "Failed to disconnect Discogs", <<"users.update">>))
             /\ UNCHANGED users
        ELSE IF UserRow(user_id) = {}
        THEN /\ Respond(Response("disconnect", user_id, 404, "User not found",
                                 <<"users.update">>))
             /\ UNCHANGED users
        ELSE /\ users' = (users \ UserRow(user_id)) \cup
                    {[r EXCEPT !.discogs_username = NULL,
                               !.discogs_access_token = NULL,
                               !.discogs_access_token_secret = NULL,
                               !.discogs_connected_at = None] : r \in UserRow(user_id)}
             /\ Respond(Response("disconnect", user_id, 200, "", <<"users.update">>))
    /\ UNCHANGED <<Config, releases, now, issued>>

----------------------------------------------------------------------------
(* cachetools.TTLCache, as DiscogsSearchService uses it                    *)

NoProbe == [fn |-> "none", arg |-> <<>>, out |-> <<>>]

Probe(fn, arg, out) == [fn |-> fn, arg |-> arg, out |-> out]

\* A cache is the sequence of its entries in the order they were stored;
\* an entry expires ttl seconds after it was stored.
Entry(key, value, expires) == [key |-> key, value |-> value, expires |-> expires]

\* TTLCache.expire(time): drop the entries whose time has come.
TTLExpire(cache, time) ==
    CHOOSE live \in {SelectSeq(cache, LAMBDA e : t < e.expires) : t \in {time}} : TRUE

\* key in cache, at the given reading of the timer.
TTLContains(cache, key, time) ==
    \E held \in {key}, t \in {time} :
        \E k \in 1..Len(cache) : cache[k].key = held /\ t < cache[k].expires

\* cache[key], for a key the cache holds.
TTLGet(cache, key) ==
    CHOOSE value \in UNION {{cache[k].value : k \in {j \in 1..Len(cache) : cache[j].key = held}} :
                                held \in {key}} : TRUE

\* The last n entries of a cache.
Newest(cache, n) ==
    IF Len(cache) <= n THEN cache ELSE SubSeq(cache, Len(cache) - n + 1, Len(cache))

\* A cache that grows without limit.
TTLSet_unbounded(cache, key, value, time, maxsize, ttl) ==
    CHOOSE next \in {Append(SelectSeq(live, LAMBDA e : e.key # held),
                            Entry(held, value, time + ttl)) :
                         live \in {TTLExpire(cache, time)}, held \in {key}} : TRUE

\* cache[key] = value: expired entries go, then the oldest ones while the
\* cache is full, and the entry is linked in as the newest.
TTLSet(cache, key, value, time, maxsize, ttl) ==
    CHOOSE next \in
        {Append(IF Len(others) = Len(live) THEN Newest(live, maxsize - 1) ELSE others,
                Entry(held, value, time + ttl)) :
            <<live, held, others>> \in
                {<<l, h, SelectSeq(l, LAMBDA e : e.key # h)>> :
                    l \in {TTLExpire(cache, time)}, h \in {key}}} : TRUE

----------------------------------------------------------------------------
(* DiscogsSearchService.search_releases                                    *)

\* str(n) of the page numbers and page sizes used, as its characters.
Str(n) ==
    LET digit == <<"0", "1", "2", "3", "4", "5", "6", "7", "8", "9">>
    IN  IF n < 10 THEN <<digit[n + 1]>>
        ELSE IF n < 100 THEN <<digit[(n \div 10) + 1], digit[(n % 10) + 1]>>
        ELSE <<digit[(n \div 100) + 1], digit[((n \div 10) % 10) + 1], digit[(n % 10) + 1]>>

\* f"search:{query}:{page}:{per_page}", a text being its characters (the
\* prefix is one).
SearchKey(query, page, per_page) ==
    <<"search", ":">> \o query \o <<":">> \o Str(page) \o <<":">> \o Str(per_page)

Triple(query, page, per_page) == [query |-> query, page |-> page, per_page |-> per_page]

KeyOf(t) == SearchKey(t.query, t.page, t.per_page)

\* What the provider answers to a search: it depends on the question and on
\* when it is asked.
SearchResult(t, time) == [triple |-> t, fetched_at |-> time]

\* The searches followed one by one.
Triples ==
    {Triple(<<"a">>, 1, 10), Triple(<<"a">>, 1, 50), Triple(<<"a", ":", "1">>, 10, 10)}

\* Searches of other clients, all different: page k of one query.
Filler(k) == Triple(<<"z">>, k, 10)

CredentialPairs == {<<"token-u1", "secret-u1">>, <<"token-u2", "secret-u2">>}

\* The readings of the timer at which requests arrive.
Instants == {0, 1, search_ttl, search_ttl + 1}

NoCaches ==
    /\ _search_cache = <<>>
    /\ _release_cache = <<>>
    /\ timer = 0
    /\ stored = [t \in Triples |-> None]

\* No request in progress, nothing in any Discogs collection, no playlist.
Idle ==
    /\ runs = <<>>
    /\ collection_folders = {}
    /\ playlists = {}
    /\ tracks = {}
    /\ serial = 0

SearchOut(kind, value, remote) == [kind |-> kind, value |-> value, remote |-> remote]

search_releases(access_token, access_token_secret, t, remote_ok) ==
    LET cache_key == KeyOf(t)
        credentials == <<access_token, access_token_secret>>
        arg == [credentials |-> credentials, triple |-> t, at |-> timer]
    IN  IF TTLContains(_search_cache, cache_key, timer)
        THEN /\ probe' = Probe("search_releases", arg,
                               SearchOut("value", TTLGet(_search_cache, cache_key), FALSE))
             /\ UNCHANGED <<_search_cache, timer>>
        ELSE IF ~remote_ok
        THEN /\ probe' = Probe("search_releases", arg, SearchOut("raise", <<>>, TRUE))
             /\ UNCHANGED <<_search_cache, timer>>
        ELSE LET response == SearchResult(t, timer)
             IN  /\ _search_cache' = TTLSet(_search_cache, cache_key, response, timer,
                                            search_maxsize, search_ttl)
                 /\ probe' = Probe("search_releases", arg, SearchOut("value", response, TRUE))
                 /\ UNCHANGED timer

\* n searches in a row, at one reading of the timer, for n triples none of
\* which the cache holds: each is fetched and stored, as above, the oldest
\* entries leaving once the cache is full.
SearchBurst(n) ==
    \E live \in {TTLExpire(_search_cache, timer)} :
        LET entries == [k \in 1..n |->
                           Entry(KeyOf(Filler(k)), SearchResult(Filler(k), timer),
                                 timer + search_ttl)]
        IN  /\ n > 0
            /\ \A k \in 1..Len(live) : live[k].value.triple \in Triples
            /\ _search_cache' = Newest(live \o entries, search_maxsize)
            /\ probe' = Probe("search_burst", n, n)
            /\ UNCHANGED timer

\* Time passes until the next request.
TickTimer ==
    /\ \E t \in Instants : t > timer /\ timer' = t
    /\ probe' = NoProbe
    /\ UNCHANGED <<_search_cache, _release_cache>>

----------------------------------------------------------------------------
(* Release detail and the collection endpoints                             *)

\* The releases a client asks about.
ReleaseIds == {101, 102}

\* f"release:{discogs_release_id}"
ReleaseKey(discogs_release_id) == <<"release", ":">> \o Str(discogs_release_id)

\* The dict get_release_detail builds from the provider's answer.  The keys
\* in_collection, collection_release_id and discogs_instance_id are not among
\* the ones it sets (None: the dict has no such key).
ReleaseDetail(discogs_release_id, time) ==
    [discogs_release_id |-> discogs_release_id,
     fetched_at |-> time,
     in_collection |-> None,
     collection_release_id |-> None,
     discogs_instance_id |-> None]

\* cache[key] gives the stored dict itself: a change made to the dict that a
\* lookup returned is a change of the entry.
TTLMutate(cache, key, value) ==
    [k \in 1..Len(cache) |->
        IF cache[k].key = key THEN [cache[k] EXCEPT !.value = value] ELSE cache[k]]

\* The rows .select("id, discogs_instance_id").eq("user_id", ...)
\* .eq("discogs_release_id", ...) returns.
CollectedRows(table, user_id, discogs_release_id) ==
    {r \in table : r.user_id = user_id /\ r.discogs_release_id = discogs_release_id}

\* rows[0]: the store returns the rows in an order of its own.
FirstRows(rows) == rows

\* DiscogsReleaseDetail(**detail): a key the dict lacks takes the default of
\* the response model (not in the collection, no ids).
DetailBody(detail) ==
    [discogs_release_id |-> detail.discogs_release_id,
     in_collection |-> detail.in_collection = Some(TRUE),
     collection_release_id |-> detail.collection_release_id,
     discogs_instance_id |-> detail.discogs_instance_id]

\* A plain insert in the place of the upsert.
UpsertCollected_insert(table, data) ==
    table \cup {[id |-> RowId(data.user_id, data.discogs_instance_id),
                 user_id |-> data.user_id,
                 discogs_instance_id |-> data.discogs_instance_id,
                 discogs_release_id |-> data.discogs_release_id,
                 updated_at |-> data.updated_at]}

\* .upsert(release_data, on_conflict="user_id,discogs_instance_id") of
\* add_to_collection.
UpsertCollected(table, data) ==
    LET hit == {r \in table : /\ r.user_id = data.user_id
                              /\ r.discogs_instance_id = data.discogs_instance_id}
    IN  (table \ hit)
            \cup {[id |-> RowId(data.user_id, data.discogs_instance_id),
                   user_id |-> data.user_id,
                   discogs_instance_id |-> data.discogs_instance_id,
                   discogs_release_id |-> data.discogs_release_id,
                   updated_at |-> data.updated_at]}

\* The exits every Discogs endpoint shares: require_discogs_configured, then
\* require_discogs_connected (whose lookup may raise).
Refused(op, user_id) ==
    IF ~is_discogs_configured
    THEN Respond(Response(op, user_id, 503, "Discogs integration is not configured", <<>>))
    ELSE \/ Respond(Response(op, user_id, 500, "Internal Server Error", <<"users.select">>))
         \/ /\ require_discogs_connected(user_id) = 404
            /\ Respond(Response(op, user_id, 404, "User not found", <<"users.select">>))
         \/ /\ require_discogs_connected(user_id) = 400
            /\ Respond(Response(op, user_id, 400,
                                "Discogs account not connected. Please connect first.",
                                <<"users.select">>))

Admitted(user_id) == is_discogs_configured /\ require_discogs_connected(user_id) = 200

\* get_release_detail: the cached dict, or the provider's answer, stored.
\* (hit, detail and the cache afterwards; the provider may raise on a miss.)
get_release_detail(discogs_release_id) ==
    LET cache_key == ReleaseKey(discogs_release_id)
    IN  IF TTLContains(_release_cache, cache_key, timer)
        THEN [hit |-> TRUE, result |-> TTLGet(_release_cache, cache_key),
              cache |-> _release_cache]
        ELSE [hit |-> FALSE, result |-> ReleaseDetail(discogs_release_id, timer),
              cache |-> TTLSet(_release_cache, cache_key,
                               ReleaseDetail(discogs_release_id, timer), timer,
                               release_maxsize, release_ttl)]

\* GET /releases/{discogs_release_id}
get_discogs_release(user_id, discogs_release_id) ==
    /\ \/ /\ Refused("detail", user_id)
          /\ UNCHANGED _release_cache
       \/ /\ Admitted(user_id)
          /\ \E got \in {get_release_detail(discogs_release_id)} :
             LET pre == <<"users.select">> \o
                            (IF got.hit THEN <<>> ELSE <<"discogs.release">>)
                 rows == CollectedRows(releases, user_id, discogs_release_id)
             IN  \/ /\ ~got.hit   \* the provider raises
                    /\ Respond(Response("detail", user_id, 502,
                                        "Failed to fetch release from Discogs",
                                        <<"users.select", "discogs.release">>))
                    /\ UNCHANGED _release_cache
                 \/ \* the select raises
                    /\ Respond(Response("detail", user_id, 502,
                                        "Failed to fetch release from Discogs",
                                        pre \o <<"releases.select">>))
                    /\ _release_cache' = got.cache
                 \/ /\ rows = {}
                    /\ Respond([Response("detail", user_id, 200, "",
                                         pre \o <<"releases.select">>)
                                   EXCEPT !.body = Some(DetailBody(got.result))])
                    /\ _release_cache' = got.cache
                 \/ \E row \in FirstRows(rows) :
                    LET detail == [got.result EXCEPT
                                      !.in_collection = Some(TRUE),
                                      !.collection_release_id = Some(row.id),
                                      !.discogs_instance_id = Some(row.discogs_instance_id)]
                    IN  /\ Respond([Response("detail", user_id, 200, "",
                                             pre \o <<"releases.select">>)
                                       EXCEPT !.body = Some(DetailBody(detail))])
                        /\ _release_cache' =
                              TTLMutate(got.cache, ReleaseKey(discogs_release_id), detail)
    /\ UNCHANGED <<Config, users, releases, now, issued, timer, collection_folders>>

\* A remote add that leaves the folder as it was.
add_release_dry(folder, user_id, instance_id) == folder

\* me.collection_folders[0].add_release(discogs_release), the provider
\* naming the instance.
add_release(folder, user_id, instance_id) == folder \cup {<<user_id, instance_id>>}

\* me.collection_folders[0].remove_release(instance_id)
remove_release(folder, user_id, instance_id) == folder \ {<<user_id, instance_id>>}

\* POST /releases/{discogs_release_id}/collect.  The provider names the new
\* instance; fail is the call that raises (0: none; 1: identity, the release
\* lookup or add_release; 2: the detail fetch; 3: the upsert; 4: add_release
\* returns no instance, none having been made).
add_to_collection(user_id, discogs_release_id, instance_id, fail) ==
    /\ \/ /\ Refused("add", user_id)
          /\ UNCHANGED <<releases, _release_cache, collection_folders>>
       \/ /\ Admitted(user_id)
          /\ \E got \in {get_release_detail(discogs_release_id)} :
             LET added == <<"users.select", "discogs.add_release">>
                 pre == added \o (IF got.hit THEN <<>> ELSE <<"discogs.release">>)
                 release_data == [user_id |-> user_id,
                                  discogs_release_id |-> discogs_release_id,
                                  discogs_instance_id |-> instance_id,
                                  updated_at |-> now]
                 failed(calls) == Respond(Response("add", user_id, 502,
                                                   "Failed to add release to collection", calls))
                 folder == add_release(collection_folders, user_id, instance_id)
             IN  \/ /\ fail = 1
                    /\ failed(added)
                    /\ UNCHANGED <<releases, _release_cache, collection_folders>>
                 \/ /\ fail = 4
                    /\ Respond(Response("add", user_id, 502,
                                        "Discogs did not return an instance for the added release",
                                        added))
                    /\ UNCHANGED <<releases, _release_cache, collection_folders>>
                 \/ /\ fail = 2 /\ ~got.hit
                    /\ failed(pre)
                    /\ collection_folders' = folder
                    /\ UNCHANGED <<releases, _release_cache>>
                 \/ /\ fail = 3
                    /\ failed(pre \o <<"releases.upsert">>)
                    /\ _release_cache' = got.cache
                    /\ collection_folders' = folder
                    /\ UNCHANGED releases
                 \/ /\ fail = 0
                    /\ collection_folders' = folder
                    /\ Respond([Response("add", user_id, 200, "", pre \o <<"releases.upsert">>)
                                   EXCEPT !.body = Some([release_id |-> RowId(user_id, instance_id),
                                                         discogs_release_id |-> discogs_release_id,
                                                         discogs_instance_id |-> instance_id])])
                    /\ _release_cache' = got.cache
                    /\ releases' = UpsertCollected(releases, release_data)
    /\ UNCHANGED <<Config, users, now, issued, timer>>

\* DELETE /releases/{discogs_release_id}/collect
remove_from_collection(user_id, discogs_release_id, fail) ==
    /\ \/ /\ Refused("remove", user_id)
          /\ UNCHANGED <<releases, collection_folders>>
       \/ /\ Admitted(user_id)
          /\ LET rows == CollectedRows(releases, user_id, discogs_release_id)
                 failed(calls) == Respond(Response("remove", user_id, 502,
                                                   "Failed to remove release from collection",
                                                   calls))
             IN  IF Cardinality(rows) # 1 \/ fail = 1
                 THEN \* .single() raises unless there is exactly one row
                      /\ Respond(Response("remove", user_id, 404, "Release not in collection",
                                          <<"users.select", "releases.select">>))
                      /\ UNCHANGED <<releases, collection_folders>>
                 ELSE \E release \in rows :
                      \/ /\ fail = 2
                         /\ failed(<<"users.select", "releases.select", "discogs.remove_release">>)
                         /\ UNCHANGED <<releases, collection_folders>>
                      \/ /\ fail = 3
                         /\ failed(<<"users.select", "releases.select", "discogs.remove_release",
                                     "releases.delete">>)
                         /\ collection_folders' =
                               remove_release(collection_folders, user_id,
                                              release.discogs_instance_id)
                         /\ UNCHANGED releases
                      \/ /\ fail = 0
                         /\ collection_folders' =
                               remove_release(collection_folders, user_id,
                                              release.discogs_instance_id)
                         /\ Respond([Response("remove", user_id, 200, "",
                                              <<"users.select", "releases.select",
                                                "discogs.remove_release", "releases.delete">>)
                                        EXCEPT !.body = Some([discogs_release_id |-> discogs_release_id])])
                         /\ releases' = DeleteById(releases, release.id)
    /\ UNCHANGED <<Config, users, now, issued, timer, _release_cache>>

\* A day passes.
TickDay ==
    /\ timer < release_ttl
    /\ timer' = release_ttl
    /\ resp' = NoResponse
    /\ UNCHANGED <<Config, users, releases, now, issued, obs, _release_cache,
                   collection_folders>>

----------------------------------------------------------------------------
(* Initial states                                                          *)

ConfigValues ==
    {[DISCOGS_CONSUMER_KEY |-> k, DISCOGS_CONSUMER_SECRET |-> c, STATE_ENCRYPTION_KEY |-> e] :
        <<k, c, e>> \in {<<"key", "secret", "statekey">>, <<"", "secret", "statekey">>,
                         <<"key", "", "statekey">>, <<"key", "secret", "">>}}

UserRowOf(user_id, name, token, secret, at) ==
    [id |-> user_id, discogs_username |-> name, discogs_access_token |-> token,
     discogs_access_token_secret |-> secret, discogs_connected_at |-> at]

ConnectedRow(user_id) == UserRowOf(user_id, "name1", "at1", "as1", Some(0))
BlankRow(user_id) == UserRowOf(user_id, NULL, NULL, NULL, None)

\* The users tables a behaviour starts from: a connected user and one who
\* never connected; a user whose secret is missing and one without a row; a
\* user whose token is the empty string.
UsersTables ==
    {{ConnectedRow("u1"), BlankRow("u2")},
     {UserRowOf("u1", "name1", "at1", NULL, Some(0))},
     {UserRowOf("u1", "name1", "", "as1", Some(0)), BlankRow("u2")}}

StoreOf(held) ==
    {[id |-> RowId(u, i), user_id |-> u, discogs_instance_id |-> i, updated_at |-> 0] :
        <<u, i>> \in held}

\* The releases tables a behaviour starts from: both users hold the same two
\* instance ids, or one user holds one and the other none.
ReleasesTables == {StoreOf(UserIds \X {"i1", "i2"}), StoreOf({<<"u2", "i3">>})}

Init ==
    /\ Config \in ConfigValues
    /\ users \in UsersTables
    /\ releases \in ReleasesTables
    /\ now = 0
    /\ issued = {}
    /\ resp = NoResponse
    /\ obs = [repeat |-> FALSE, recovered |-> FALSE, e2e |-> 0]
    /\ cleared = {}
    /\ probe = NoProbe
    /\ NoCaches
    /\ Idle

\* Time passes; the response of the last request has been delivered.  The
\* clock is read from the first authorization on.
Tick ==
    /\ issued # {}
    /\ now < MaxTime
    /\ now' = now + 1
    /\ Respond(NoResponse)
    /\ UNCHANGED <<Config, users, releases, issued>>

Next ==
    /\ \/ \E u \in UserIds : sync_collection(u)
       \/ \E u \in UserIds : discogs_disconnect(u)
    /\ UNCHANGED <<cleared, probe, caches, runs, collection_folders, playlistTables>>

Spec == Init /\ [][Next]_vars

\* The handshake: a deployment with or without the Discogs settings, one user
\* with a row who never connected, one user without a row.
InitOAuth ==
    /\ Config \in ConfigValues
    /\ users = {BlankRow("u1")}
    /\ releases = StoreOf({})
    /\ now = 0
    /\ issued = {}
    /\ resp = NoResponse
    /\ obs = [repeat |-> FALSE, recovered |-> FALSE, e2e |-> 0]
    /\ cleared = {}
    /\ probe = NoProbe
    /\ NoCaches
    /\ Idle

NextOAuth ==
    /\ \/ \E u \in UserIds : discogs_authorize(u)
       \/ \E u \in UserIds : discogs_callback(u)
       \/ \E u \in UserIds : discogs_disconnect(u)
       \/ Tick
    /\ UNCHANGED <<cleared, probe, caches, runs, collection_folders, playlistTables>>

SpecOAuth == InitOAuth /\ [][NextOAuth]_vars

\* The life of one user's credentials: a deployment with or without the
\* Discogs settings, a connected user, and every request that reads or writes
\* the credentials.
InitLife ==
    /\ Config \in ConfigValues
    /\ users = {ConnectedRow("u1")}
    /\ releases = StoreOf({<<"u1", "i1">>, <<"u2", "i1">>})
    /\ now = 0
    /\ issued = {}
    /\ resp = NoResponse
    /\ obs = [repeat |-> FALSE, recovered |-> FALSE, e2e |-> 0]
    /\ cleared = {}
    /\ probe = NoProbe
    /\ NoCaches
    /\ Idle

\* The history the request answered by r leaves: a successful disconnect
\* enters the user, a successful callback takes the user out.
Cleared(old, r) ==
    IF r.op = "disconnect" /\ r.status = 200 THEN old \cup {r.user}
    ELSE IF r.op = "callback" /\ r.status = 200 THEN old \ {r.user}
    ELSE old

NextLife ==
    /\ \/ \E u \in UserIds : discogs_authorize(u)
       \/ \E u \in UserIds : discogs_callback(u)
       \/ \E u \in UserIds : discogs_disconnect(u)
       \/ \E u \in UserIds : sync_collection(u)
    /\ cleared' = Cleared(cleared, resp')
    /\ UNCHANGED <<probe, caches, runs, collection_folders, playlistTables>>

SpecLife == InitLife /\ [][NextLife]_vars

----------------------------------------------------------------------------
(* The extraction functions applied to the inputs the provider can send    *)

FormatEntries ==
    [qty : {ABSENT, NULL, "", "0", "1", "2", "3"}, name : {"Vinyl", "LP", "CD", ABSENT}]

FormatLists == SeqsUpTo(FormatEntries, MaxFormats)

LabelLists ==
    {<<>>, <<[catno |-> ABSENT]>>, <<[catno |-> NULL]>>, <<[catno |-> ""]>>,
     <<[catno |-> "none"]>>, <<[catno |-> "CAT-1"]>>,
     <<[catno |-> "CAT-1"], [catno |-> "CAT-2"]>>, <<[catno |-> ""], [catno |-> "CAT-2"]>>}

Image(type, uri) == [type |-> type, uri |-> uri]

ImageLists ==
    {<<>>, <<Image("secondary", "a.jpg")>>, <<Image("primary", "p.jpg")>>,
     <<Image("secondary", "a.jpg"), Image("primary", "p.jpg")>>,
     <<Image("secondary", "a.jpg"), Image("secondary", "b.jpg")>>}

ThumbValues == {ABSENT, NULL, "", "thumb.jpg"}
CoverValues == {ABSENT, NULL, "", "cover.jpg"}

\* The release behind an item whose listing carries the inline summary: it
\* is never asked for.
UnusedRelease ==
    [ok |-> TRUE, malformed |-> FALSE, images |-> <<>>, thumb |-> ABSENT,
     formats |-> <<>>, labels |-> <<>>]

\* An item whose listing carries basic_information.
InlineItem(id, malformed, cover_image, thumb, formats, labels) ==
    [id |-> id,
     info |-> Some([malformed |-> malformed, cover_image |-> cover_image,
                    thumb |-> thumb, formats |-> formats, labels |-> labels]),
     release |-> UnusedRelease]

\* An item without it: item.release is fetched (ok) and then read.
FallbackItem(id, ok, malformed, images, thumb, formats, labels) ==
    [id |-> id,
     info |-> None,
     release |-> [ok |-> ok, malformed |-> malformed, images |-> images,
                  thumb |-> thumb, formats |-> formats, labels |-> labels]]

TwoLP == <<[qty |-> "2", name |-> "LP"]>>

ItemInputs ==
    {InlineItem("i1", FALSE, c, t, TwoLP, l) :
        c \in CoverValues, t \in ThumbValues, l \in LabelLists}
    \cup {FallbackItem("i1", TRUE, FALSE, im, t, TwoLP, l) :
        im \in ImageLists, t \in ThumbValues, l \in LabelLists}

GoodLabel == <<[catno |-> "CAT-1"]>>

ListingItems ==
    {InlineItem("i1", FALSE, "cover.jpg", "thumb.jpg", TwoLP, GoodLabel),
     InlineItem("i2", FALSE, ABSENT, ABSENT, <<>>, <<>>),
     InlineItem("i2", TRUE, "cover.jpg", "thumb.jpg", TwoLP, GoodLabel),
     FallbackItem("i3", TRUE, FALSE, <<Image("primary", "p.jpg")>>, ABSENT, TwoLP, GoodLabel),
     FallbackItem("i2", FALSE, FALSE, <<>>, ABSENT, <<>>, <<>>),
     FallbackItem("i3", TRUE, TRUE, <<>>, ABSENT, TwoLP, GoodLabel)}

Listings == SeqsUpTo(ListingItems, MaxListing)

\* The list of n releases that repeats the given ones in turn.
Cycle(pattern, n) == [k \in 1..n |-> pattern[((k - 1) % Len(pattern)) + 1]]

\* Fetched lists around the batch size, and short ones.
LongLists ==
    {Cycle(p, n) : p \in SeqsUpTo(Items, MaxPattern) \ {<<>>},
                   n \in {2, batch_size, batch_size + 1, 2 * batch_size + 1}}

\* The tables a run of sync_to_database for u1 can find.
SyncTables ==
    {StoreOf(held) : held \in {{}, {<<"u1", "i1">>}, {<<"u1", "i1">>, <<"u2", "i2">>},
                               {<<"u1", "i1">>, <<"u1", "i3">>, <<"u2", "i1">>}}}

InputsExtract ==
    {Probe("listing", l, <<>>) : l \in Listings}
    \cup {Probe("formats", f, <<>>) : f \in FormatLists}
    \cup {Probe("item", i, <<>>) : i \in ItemInputs}
    \cup {Probe("sync", [table |-> t, rels |-> l], <<>>) : t \in SyncTables, l \in LongLists}

InitExtract ==
    /\ Config \in ConfigValues
    /\ users = {ConnectedRow("u1")}
    /\ releases = StoreOf({})
    /\ now = 0
    /\ issued = {}
    /\ resp = NoResponse
    /\ obs = [repeat |-> FALSE, recovered |-> FALSE, e2e |-> 0]
    /\ cleared = {}
    /\ probe \in InputsExtract
    /\ NoCaches
    /\ Idle

ApplyFetch ==
    /\ probe.fn = "listing"
    /\ probe' = Probe("fetch_discogs_collection", probe.arg,
                      fetch_discogs_collection(probe.arg))

ApplyFormatString ==
    /\ probe.fn = "formats"
    /\ probe' = Probe("_extract_format_string", probe.arg,
                      _extract_format_string(probe.arg))

ApplyExtract ==
    /\ probe.fn = "item"
    /\ probe' = Probe("_extract_release_data", probe.arg,
                      _extract_release_data(probe.arg))

\* sync_to_database for u1, no store call raising.
ApplySync ==
    /\ probe.fn = "sync"
    /\ \E table \in {probe.arg.table}, rels \in {probe.arg.rels} :
          probe' = Probe("sync_to_database", probe.arg,
                         sync_to_database(table, "u1", rels, 0, 0,
                                          CHOOSE o \in DeleteOrders(table, "u1", rels) : TRUE))

NextExtract ==
    /\ \/ ApplyFetch
       \/ ApplyFormatString
       \/ ApplyExtract
       \/ ApplySync
    /\ UNCHANGED <<Config, users, releases, now, issued, resp, obs, cleared, caches,
                   runs, collection_folders, playlistTables>>

SpecExtract == InitExtract /\ [][NextExtract]_vars

InitSearch ==
    /\ Config \in ConfigValues
    /\ is_discogs_configured
    /\ users = {ConnectedRow("u1")}
    /\ releases = StoreOf({})
    /\ now = 0
    /\ issued = {}
    /\ resp = NoResponse
    /\ obs = [repeat |-> FALSE, recovered |-> FALSE, e2e |-> 0]
    /\ cleared = {}
    /\ probe = NoProbe
    /\ NoCaches
    /\ Idle

\* The history after a request: a search the provider answered is recorded.
Stored(old, p) ==
    IF p.fn = "search_releases" /\ p.out.kind = "value" /\ p.out.remote
    THEN [old EXCEPT ![p.arg.triple] = Some(p.arg.at)]
    ELSE old

NextSearch ==
    /\ \/ \E c \in CredentialPairs, t \in Triples, remote_ok \in BOOLEAN :
             search_releases(c[1], c[2], t, remote_ok)
       \/ SearchBurst(search_maxsize - 1)
       \/ TickTimer
    /\ stored' = Stored(stored, probe')
    /\ UNCHANGED <<Config, users, releases, now, issued, resp, obs, cleared, _release_cache,
                   runs, collection_folders, playlistTables>>

SpecSearch == InitSearch /\ [][NextSearch]_vars

InitDetail ==
    /\ Config \in ConfigValues
    /\ users = {ConnectedRow("u1"), UserRowOf("u2", "name2", "at2", "as2", Some(0))}
    /\ releases = {}
    /\ now = 0
    /\ issued = {}
    /\ resp = NoResponse
    /\ obs = [repeat |-> FALSE, recovered |-> FALSE, e2e |-> 0]
    /\ cleared = {}
    /\ probe = NoProbe
    /\ NoCaches
    /\ Idle

\* The provider never names an instance that is in a collection already.
FreeInstances ==
    {"i1", "i2"} \ ({r.discogs_instance_id : r \in releases}
                       \cup {held[2] : held \in collection_folders})

NextDetail ==
    /\ \/ \E u \in UserIds, id \in ReleaseIds : get_discogs_release(u, id)
       \/ \E u \in UserIds, id \in ReleaseIds, i \in FreeInstances, fail \in {0, 1, 4} :
             add_to_collection(u, id, i, fail)
       \/ \E u \in UserIds, id \in ReleaseIds, fail \in 0..2 :
             remove_from_collection(u, id, fail)
       \/ TickDay
    /\ UNCHANGED <<cleared, probe, _search_cache, stored, runs, playlistTables>>

SpecDetail == InitDetail /\ [][NextDetail]_vars

----------------------------------------------------------------------------
(* The handshake with a count of the exchanges a state token went into     *)

\* How many calls of exchange_tokens have reached the provider.
Replays(p) == IF p.fn = "exchange_tokens" THEN p.out ELSE 0

\* The history after the request answered by r.
Replayed(old, r) ==
    IF r.op = "callback" /\ r.exchange # None
    THEN Probe("exchange_tokens", r.state[1], Replays(old) + 1)
    ELSE old

NextReplay ==
    /\ \/ \E u \in UserIds : discogs_authorize(u)
       \/ /\ Replays(probe) < MaxReplays
          /\ \E u \in UserIds : discogs_callback(u)
       \/ Tick
    /\ probe' = Replayed(probe, resp')
    /\ UNCHANGED <<cleared, caches, runs, collection_folders, playlistTables>>

SpecReplay == InitOAuth /\ [][NextReplay]_vars

----------------------------------------------------------------------------
(* The handshake of two users with a record of who asked for each state    *)

\* The (token bytes, user) pairs of the authorize requests answered so far.
Requesters(p) == IF p.fn = "authorize" THEN p.out ELSE {}

\* The record after the request answered by r.
Requested(old, r) ==
    IF r.op = "authorize" /\ r.status = 200
    THEN Probe("authorize", <<>>, Requesters(old) \cup {<<r.state[1].bytes, r.user>>})
    ELSE old

\* Both users have a row; u1 never connected or is connected already, u2
\* never connected.
InitBinding ==
    /\ Config \in ConfigValues
    /\ users \in {{BlankRow("u1"), BlankRow("u2")}, {ConnectedRow("u1"), BlankRow("u2")}}
    /\ releases = StoreOf({})
    /\ now = 0
    /\ issued = {}
    /\ resp = NoResponse
    /\ obs = [repeat |-> FALSE, recovered |-> FALSE, e2e |-> 0]
    /\ cleared = {}
    /\ probe = NoProbe
    /\ NoCaches
    /\ Idle

NextBinding ==
    /\ \/ \E u \in UserIds : discogs_authorize(u)
       \/ \E u \in UserIds : discogs_callback(u)
       \/ Tick
    /\ probe' = Requested(probe, resp')
    /\ UNCHANGED <<cleared, caches, runs, collection_folders, playlistTables>>

SpecBinding == InitBinding /\ [][NextBinding]_vars

----------------------------------------------------------------------------
(* Two searches served side by side.  search_releases takes no lock: a     *)
(* thread can be interrupted between the membership test, the read, the    *)
(* remote call and the store.                                              *)

\* A search that has not arrived.  called: the reading of the timer at which
\* it asked the provider; out: what it returned or raised.
NoLookup == [pc |-> "idle", triple |-> <<>>, called |-> None, out |-> None]

\* What a call came to: the value it returned or the exception it raised.
Outcome(kind, value) == [kind |-> kind, value |-> value]

\* cache_key = f"search:{query}:{page}:{per_page}"
LookupArrive(p, t) ==
    /\ runs[p].pc = "idle"
    /\ runs' = [runs EXCEPT ![p] = [NoLookup EXCEPT !.pc = "test", !.triple = t]]
    /\ UNCHANGED <<_search_cache, timer>>

\* if cache_key in self._search_cache:
LookupTest(p) ==
    /\ runs[p].pc = "test"
    /\ runs' = [runs EXCEPT ![p].pc =
                    IF TTLContains(_search_cache, KeyOf(runs[p].triple), timer)
                    THEN "read" ELSE "remote"]
    /\ UNCHANGED <<_search_cache, timer>>

\* return self._search_cache[cache_key]: KeyError when the entry has gone.
LookupRead(p) ==
    /\ runs[p].pc = "read"
    /\ runs' = [runs EXCEPT ![p] =
                    IF TTLContains(_search_cache, KeyOf(runs[p].triple), timer)
                    THEN [@ EXCEPT !.pc = "done",
                                   !.out = Some(Outcome("value",
                                                        TTLGet(_search_cache, KeyOf(runs[p].triple))))]
                    ELSE [@ EXCEPT !.pc = "done", !.out = Some(Outcome("KeyError", <<>>))]]
    /\ UNCHANGED <<_search_cache, timer>>

\* client.search(...), search_obj.page(page): the provider answers or raises.
LookupRemote(p, remote_ok) ==
    /\ runs[p].pc = "remote"
    /\ runs' = [runs EXCEPT ![p] =
                    IF remote_ok
                    THEN [@ EXCEPT !.pc = "store", !.called = Some(timer),
                                   !.out = Some(Outcome("value", SearchResult(runs[p].triple, timer)))]
                    ELSE [@ EXCEPT !.pc = "done", !.called = Some(timer),
                                   !.out = Some(Outcome("HTTPError", <<>>))]]
    /\ UNCHANGED <<_search_cache, timer>>

\* self._search_cache[cache_key] = response; return response
LookupStore(p) ==
    /\ runs[p].pc = "store"
    /\ _search_cache' = TTLSet(_search_cache, KeyOf(runs[p].triple), runs[p].out[1].value, timer,
                               search_maxsize, search_ttl)
    /\ runs' = [runs EXCEPT ![p].pc = "done"]
    /\ UNCHANGED timer

InitLookup ==
    /\ Config \in ConfigValues
    /\ is_discogs_configured
    /\ users = {ConnectedRow("u1")}
    /\ releases = StoreOf({})
    /\ now = 0
    /\ issued = {}
    /\ resp = NoResponse
    /\ obs = [repeat |-> FALSE, recovered |-> FALSE, e2e |-> 0]
    /\ cleared = {}
    /\ probe = NoProbe
    /\ NoCaches
    /\ runs = [p \in RunNames |-> NoLookup]
    /\ collection_folders = {}
    /\ playlists = {}
    /\ tracks = {}
    /\ serial = 0

NextLookup ==
    /\ \/ /\ \/ \E p \in RunNames, t \in Triples : LookupArrive(p, t)
             \/ \E p \in RunNames : LookupTest(p)
             \/ \E p \in RunNames : LookupRead(p)
             \/ \E p \in RunNames, remote_ok \in BOOLEAN : LookupRemote(p, remote_ok)
             \/ \E p \in RunNames : LookupStore(p)
          /\ UNCHANGED probe
       \/ /\ TickTimer
          /\ UNCHANGED runs
    /\ UNCHANGED <<Config, users, releases, now, issued, resp, obs, cleared, _release_cache,
                   stored, collection_folders, playlistTables>>

SpecLookup == InitLookup /\ [][NextLookup]_vars

----------------------------------------------------------------------------
(* PlaylistService and the track endpoints.  Store calls are taken to      *)
(* succeed; the store names a new track after the count of its inserts.    *)

PlaylistIds == {"p1", "p2", "p9"}

\* get_playlist: the row with that id and that owner, or None (.single()
\* raises without exactly one row, and the exception is swallowed).
get_playlist(playlist_id, user_id) ==
    LET rows == {p \in playlists : p.id = playlist_id /\ p.user_id = user_id}
    IN  IF Cardinality(rows) = 1 THEN Some(CHOOSE p \in rows : TRUE) ELSE None

PlaylistTracks(table, playlist_id) == {t \in table : t.playlist_id = playlist_id}

\* A rank that starts again at 1 whatever the playlist holds.
next_order_one(table, playlist_id) == 1

\* next_order: 1, or one more than the track_order of the first row when the
\* tracks of the playlist are sorted by track_order, descending.
next_order(table, playlist_id) ==
    LET order_response == {t.track_order : t \in PlaylistTracks(table, playlist_id)}
    IN  IF order_response = {} THEN 1
        ELSE (CHOOSE m \in order_response : \A o \in order_response : o <= m) + 1

\* POST /playlists/{playlist_id}/tracks
add_track_to_playlist(user_id, playlist_id) ==
    \E arg \in {[playlist_id |-> playlist_id, user_id |-> user_id]} :
        IF get_playlist(playlist_id, user_id) = None
        THEN /\ probe' = Probe("add_track", arg, Outcome("ValueError", <<>>))
             /\ Respond(Response("add_track", user_id, 404, "Playlist not found",
                                  <<"playlists.select">>))
             /\ UNCHANGED <<tracks, serial>>
        ELSE /\ serial < MaxTracks
             /\ \E track \in {[id |-> serial + 1, playlist_id |-> playlist_id,
                                track_order |-> next_order(tracks, playlist_id)]} :
                   /\ tracks' = tracks \cup {track}
                   /\ serial' = serial + 1
                   /\ probe' = Probe("add_track", arg, Outcome("value", track))
                   /\ Respond([Response("add_track", user_id, 201, "",
                                         <<"playlists.select", "playlist_tracks.select",
                                           "playlist_tracks.insert">>)
                                   EXCEPT !.body = Some(track)])

\* return response.data is not None, the store answering a delete with the
\* list of the rows it deleted.
Removed(deleted) == Some(deleted) # None

\* DELETE /playlists/{playlist_id}/tracks/{track_id}
remove_track_from_playlist(user_id, playlist_id, track_id) ==
    \E arg \in {[playlist_id |-> playlist_id, track_id |-> track_id, user_id |-> user_id]} :
        IF get_playlist(playlist_id, user_id) = None
        THEN /\ probe' = Probe("remove_track", arg, Outcome("ValueError", <<>>))
             /\ Respond(Response("remove_track", user_id, 404, "Playlist not found",
                                  <<"playlists.select">>))
             /\ UNCHANGED <<tracks, serial>>
        ELSE \E deleted \in {{t \in tracks : t.id = track_id /\ t.playlist_id = playlist_id}} :
             /\ tracks' = tracks \ deleted
             /\ probe' = Probe("remove_track", arg, Outcome("value", Removed(deleted)))
             /\ IF ~Removed(deleted)
                THEN Respond(Response("remove_track", user_id, 404, "Track not found",
                                      <<"playlists.select", "playlist_tracks.delete">>))
                ELSE Respond(Response("remove_track", user_id, 204, "",
                                      <<"playlists.select", "playlist_tracks.delete">>))
             /\ UNCHANGED serial

\* An update that finds the track by its id alone.
UpdateOrder_anyPlaylist(table, playlist_id, track_id, order) ==
    {IF t.id = track_id THEN [t EXCEPT !.track_order = order] ELSE t : t \in table}

\* .update({"track_order": index + 1}).eq("id", track_id).eq("playlist_id", playlist_id)
UpdateOrder(table, playlist_id, track_id, order) ==
    {IF t.id = track_id /\ t.playlist_id = playlist_id
     THEN [t EXCEPT !.track_order = order] ELSE t : t \in table}

RECURSIVE UpdateFirst(_, _, _, _)
\* The table after the first n turns of "for index, track_id in enumerate(track_ids)".
UpdateFirst(table, playlist_id, track_ids, n) ==
    IF n = 0 THEN table
    ELSE UpdateOrder(UpdateFirst(table, playlist_id, track_ids, n - 1),
                     playlist_id, track_ids[n], n)

\* .select("*").eq("playlist_id", ...).order("track_order", desc=False): the
\* tracks of the playlist by rank, tracks of one rank in an order of the
\* store's choosing.
OrderedTracks(table, playlist_id) ==
    {l \in Perms(PlaylistTracks(table, playlist_id)) :
        \A j, k \in 1..Len(l) : j < k => l[j].track_order <= l[k].track_order}

\* PATCH /playlists/{playlist_id}/tracks/reorder
reorder_playlist_tracks(user_id, playlist_id, track_ids) ==
    \E arg \in {[playlist_id |-> playlist_id, user_id |-> user_id, track_ids |-> track_ids]} :
        IF get_playlist(playlist_id, user_id) = None
        THEN /\ probe' = Probe("reorder_tracks", arg, Outcome("ValueError", <<>>))
             /\ Respond(Response("reorder_tracks", user_id, 404, "Playlist not found",
                                  <<"playlists.select">>))
             /\ UNCHANGED <<tracks, serial>>
        ELSE \E updated \in {UpdateFirst(tracks, playlist_id, track_ids, Len(track_ids))} :
             \E listing \in OrderedTracks(updated, playlist_id) :
                /\ tracks' = updated
                /\ probe' = Probe("reorder_tracks", arg, Outcome("value", listing))
                /\ Respond([Response("reorder_tracks", user_id, 200, "",
                                      <<"playlists.select">>
                                      \o [k \in 1..Len(track_ids) |-> "playlist_tracks.update"]
                                      \o <<"playlist_tracks.select">>)
                                EXCEPT !.body = Some(listing)])
                /\ UNCHANGED serial

\* A playlist of u1 and one of u2; the other user's playlist and one that
\* does not exist (p9) are what the ownership check is for.
InitPlaylist ==
    /\ Config \in ConfigValues
    /\ is_discogs_configured
    /\ users = {ConnectedRow("u1")}
    /\ releases = StoreOf({})
    /\ now = 0
    /\ issued = {}
    /\ resp = NoResponse
    /\ obs = [repeat |-> FALSE, recovered |-> FALSE, e2e |-> 0]
    /\ cleared = {}
    /\ probe = NoProbe
    /\ NoCaches
    /\ runs = <<>>
    /\ collection_folders = {}
    /\ playlists = {[id |-> "p1", user_id |-> "u1"], [id |-> "p2", user_id |-> "u2"]}
    /\ tracks = {}
    /\ serial = 0

NextPlaylist ==
    /\ \/ \E u \in UserIds, p \in PlaylistIds : add_track_to_playlist(u, p)
       \/ \E u \in UserIds, p \in PlaylistIds, t \in 1..MaxTracks :
             remove_track_from_playlist(u, p, t)
    /\ UNCHANGED <<Config, users, releases, now, issued, cleared, caches, runs,
                   collection_folders, playlists>>

SpecPlaylist == InitPlaylist /\ [][NextPlaylist]_vars

\* The track id lists a client sends: lists of known and unknown ids without
\* repetition, and the lists of two ids with one.
TrackIdLists ==
    {l \in SeqsUpTo(1..MaxTracks, MaxTracks) :
        Len(l) <= 2 \/ Cardinality(Range(l)) = Len(l)}

NextReorder ==
    /\ \/ \E u \in UserIds, p \in PlaylistIds : add_track_to_playlist(u, p)
       \/ \E u \in UserIds, p \in PlaylistIds, t \in 1..MaxTracks :
             remove_track_from_playlist(u, p, t)
       \/ \E u \in UserIds, p \in PlaylistIds :
          \E track_ids \in IF get_playlist(p, u) = None THEN {<<1>>} ELSE TrackIdLists :
             reorder_playlist_tracks(u, p, track_ids)
    /\ UNCHANGED <<Config, users, releases, now, issued, cleared, caches, runs,
                   collection_folders, playlists>>

SpecReorder == InitPlaylist /\ [][NextReorder]_vars

\* Collecting and uncollecting with every call that can raise: one user, the
\* two releases, the cache as it comes.
NextCollect ==
    /\ \/ \E id \in ReleaseIds, i \in FreeInstances, fail \in 0..4 :
             add_to_collection("u1", id, i, fail)
       \/ \E id \in ReleaseIds, fail \in 0..3 :
             remove_from_collection("u1", id, fail)
    /\ UNCHANGED <<cleared, probe, _search_cache, stored, runs, playlistTables>>

SpecCollect == InitDetail /\ [][NextCollect]_vars

----------------------------------------------------------------------------
(* The sync endpoint against a provider that may fail                      *)

\* What the provider does during one fetch: whether client.identity()
\* answers, whether the "all items" folder can be reached, the items the
\* listing yields, and whether the iteration raises after them.
Attempt(identity_ok, folder_ok, collection, breaks) ==
    [identity_ok |-> identity_ok, folder_ok |-> folder_ok,
     collection |-> collection, breaks |-> breaks]

Attempts ==
    {Attempt(FALSE, TRUE, <<>>, FALSE), Attempt(TRUE, FALSE, <<>>, FALSE)}
    \cup {Attempt(TRUE, TRUE, l, b) : l \in {c \in Listings : Len(c) < MaxListing},
                                      b \in BOOLEAN}

\* A fetch that returns what it had extracted when the iteration raised.
FetchCollection_partial(attempt) ==
    IF ~attempt.identity_ok \/ ~attempt.folder_ok
    THEN Raised
    ELSE Returned(fetch_discogs_collection(attempt.collection).releases)

\* fetch_discogs_collection as a whole: everything that raises outside the
\* extraction of a single item becomes CollectionSyncError.
FetchCollection(attempt) ==
    IF ~attempt.identity_ok \/ ~attempt.folder_ok \/ attempt.breaks
    THEN Raised
    ELSE Returned(fetch_discogs_collection(attempt.collection).releases)

\* POST /collection/sync of a connected user, the provider behaving as
\* attempt says and no store call raising.
SyncAttempt(user_id, attempt) ==
    /\ Admitted(user_id)
    /\ \E got \in {FetchCollection(attempt)} :
          /\ probe' = Probe("fetch", attempt, got)
          /\ IF got.kind = "raise"
             THEN /\ Respond(Response("sync", user_id, 502,
                                      "Failed to fetch Discogs collection",
                                      <<"users.select", "discogs.fetch">>))
                  /\ UNCHANGED releases
             ELSE SyncFetched(user_id, got.value, 0,
                              CHOOSE o \in DeleteOrders(releases, user_id, got.value) : TRUE)
    /\ UNCHANGED <<Config, users, now, issued>>

InitFetch ==
    /\ Config \in ConfigValues
    /\ is_discogs_configured
    /\ users = {ConnectedRow("u1")}
    /\ releases \in ReleasesTables
    /\ now = 1
    /\ issued = {}
    /\ resp = NoResponse
    /\ obs = [repeat |-> FALSE, recovered |-> FALSE, e2e |-> 0]
    /\ cleared = {}
    /\ probe = NoProbe
    /\ NoCaches
    /\ Idle

NextFetch ==
    /\ \E u \in UserIds, attempt \in Attempts : SyncAttempt(u, attempt)
    /\ UNCHANGED <<cleared, caches, runs, collection_folders, playlistTables>>

SpecFetch == InitFetch /\ [][NextFetch]_vars

----------------------------------------------------------------------------
(* Two sync requests served side by side (the endpoints are plain "def"    *)
(* handlers, which the framework runs on a pool of threads).  A run is     *)
(* interrupted only between store calls.                                   *)

\* A run that has not arrived.
NoRun ==
    [pc |-> "idle", user |-> "none", rels |-> <<>>, t |-> 0,
     existing_map |-> <<>>, ids_to_delete |-> <<>>, i |-> 0, d |-> 0]

\* Where a run stands after i upserts and d deletes: the upsert loop, then
\* the delete loop, then the return.
PcOf(run) ==
    IF run.i < Len(run.rels) THEN "upsert"
    ELSE IF run.d < Len(run.ids_to_delete) THEN "delete"
    ELSE "done"

\* return {"added": ..., "updated": ..., "removed": ..., "total": ...}
SummaryOf(run) ==
    LET items == BatchedOrder(run.rels, 0)
        existing_instance_ids == DOMAIN run.existing_map
    IN  [added |-> Cardinality({k \in 1..Len(items) : IsNew(items[k], existing_instance_ids)}),
         updated |-> Cardinality({k \in 1..Len(items) : ~IsNew(items[k], existing_instance_ids)}),
         removed |-> run.d,
         total |-> Len(run.rels)]

\* The endpoint answers when the run has returned.
Finish(run) ==
    IF PcOf(run) = "done"
    THEN Respond([Response("sync", run.user, 200, "",
                           <<"users.select", "discogs.fetch", "releases.select">>
                           \o [k \in 1..run.i |-> "releases.upsert"]
                           \o [k \in 1..run.d |-> "releases.delete"])
                     EXCEPT !.fetched = Some(run.rels), !.body = Some(SummaryOf(run))])
    ELSE UNCHANGED <<resp, obs>>

\* sync_collection up to the first store call of sync_to_database: the user
\* is connected, the fetch returned rels, the clock has been read.
SyncArrive(p, user_id, rels) ==
    /\ runs[p].pc = "idle"
    /\ Admitted(user_id)
    /\ runs' = [runs EXCEPT ![p] = [NoRun EXCEPT !.pc = "select", !.user = user_id,
                                                 !.rels = rels, !.t = now]]
    /\ UNCHANGED <<Config, users, releases, now, issued, resp, obs>>

\* The snapshot: existing_map, and from it the rows to delete, in the order
\* the loop will visit them.
SyncSelect(p) ==
    /\ runs[p].pc = "select"
    /\ \E order \in DeleteOrders(releases, runs[p].user, runs[p].rels) :
       \E existing_map \in {[iid \in UserInstanceIds(releases, runs[p].user) |->
                                (CHOOSE r \in UserRows(releases, runs[p].user) :
                                    r.discogs_instance_id = iid).id]} :
       \E run \in {[runs[p] EXCEPT !.existing_map = existing_map,
                                    !.ids_to_delete = [k \in 1..Len(order) |->
                                                          existing_map[order[k]]]]} :
          /\ runs' = [runs EXCEPT ![p] = [run EXCEPT !.pc = PcOf(run)]]
          /\ Finish(run)
    /\ UNCHANGED <<Config, users, releases, now, issued>>

\* One turn of the upsert loop.
SyncUpsert(p) ==
    /\ runs[p].pc = "upsert"
    /\ \E run \in {[runs[p] EXCEPT !.i = @ + 1]} :
          /\ releases' = Upsert(releases,
                                [user_id |-> run.user,
                                 discogs_instance_id |->
                                     BatchedOrder(run.rels, 0)[run.i].discogs_instance_id,
                                 updated_at |-> run.t])
          /\ runs' = [runs EXCEPT ![p] = [run EXCEPT !.pc = PcOf(run)]]
          /\ Finish(run)
    /\ UNCHANGED <<Config, users, now, issued>>

\* One turn of the delete loop.
SyncDelete(p) ==
    /\ runs[p].pc = "delete"
    /\ \E run \in {[runs[p] EXCEPT !.d = @ + 1]} :
          /\ releases' = DeleteById(releases, run.ids_to_delete[run.d])
          /\ runs' = [runs EXCEPT ![p] = [run EXCEPT !.pc = PcOf(run)]]
          /\ Finish(run)
    /\ UNCHANGED <<Config, users, now, issued>>

\* Time passes between the arrival of two requests.
RaceTick ==
    /\ now < MaxRaceTime
    /\ \E p \in RunNames : runs[p].pc = "idle"
    /\ now' = now + 1
    /\ UNCHANGED <<Config, users, releases, issued, resp, obs, runs>>

InitRace ==
    /\ Config \in ConfigValues
    /\ is_discogs_configured
    /\ users = {ConnectedRow("u1")}
    /\ releases \in ReleasesTables
    /\ now = 1
    /\ issued = {}
    /\ resp = NoResponse
    /\ obs = [repeat |-> FALSE, recovered |-> FALSE, e2e |-> 0]
    /\ cleared = {}
    /\ probe = NoProbe
    /\ NoCaches
    /\ runs = [p \in RunNames |-> NoRun]
    /\ collection_folders = {}
    /\ playlists = {}
    /\ tracks = {}
    /\ serial = 0

NextRace ==
    /\ \/ \E p \in RunNames, u \in UserIds, rels \in FetchedLists : SyncArrive(p, u, rels)
       \/ \E p \in RunNames : SyncSelect(p)
       \/ \E p \in RunNames : SyncUpsert(p)
       \/ \E p \in RunNames : SyncDelete(p)
       \/ RaceTick
    /\ UNCHANGED <<cleared, probe, caches, collection_folders, playlistTables>>

SpecRace == InitRace /\ [][NextRace]_vars

\* The two syncs of u1 with one collect request of u1 among them, the
\* provider naming an instance that either sync may have fetched as well.
NextRaceCollect ==
    /\ \/ /\ \/ \E p \in RunNames, u \in UserIds, rels \in FetchedLists :
                   SyncArrive(p, u, rels)
             \/ \E p \in RunNames : SyncSelect(p)
             \/ \E p \in RunNames : SyncUpsert(p)
             \/ \E p \in RunNames : SyncDelete(p)
          /\ UNCHANGED <<caches, collection_folders>>
       \/ /\ collection_folders = {}
          /\ \E fail \in {0, 3} : add_to_collection("u1", 101, "i3", fail)
          /\ UNCHANGED <<runs, _search_cache, stored>>
    /\ UNCHANGED <<cleared, probe, playlistTables>>

SpecRaceCollect == InitRace /\ [][NextRaceCollect]_vars

----------------------------------------------------------------------------
(* Reconciliation                                                          *)

Summary(added, updated, removed, total) ==
    [added |-> added, updated |-> updated, removed |-> removed, total |-> total]

\* C1: when a sync of a user completes and the next request is a sync of the
\* same user that gets the same list L and completes, the second run returns
\* added = 0, removed = 0 and updated = len(L), and leaves the user's set of
\* stored instance ids as the first run left it.
C1_Idempotence ==
    [][obs'.repeat =>
        /\ resp'.body[1].added = 0
        /\ resp'.body[1].removed = 0
        /\ resp'.body[1].updated = Len(resp'.fetched[1])
        /\ UserInstanceIds(releases', resp'.user) = UserInstanceIds(releases, resp'.user)]_vars

C1_Witness ==
    /\ obs.repeat
    /\ Len(resp.fetched[1]) = 2
    /\ resp.body[1] = Summary(0, 2, 0, 2)

\* C2: after a sync that completes, whatever the store held before (the
\* leftovers of a failed run included), the user's rows are exactly one row per
\* distinct instance id of the fetched list and no row of any other id.
C2_Mirror ==
    IsSyncOk(resp) =>
        /\ UserInstanceIds(releases, resp.user) = FetchedIds(resp.fetched[1])
        /\ Cardinality(UserRows(releases, resp.user))
             = Cardinality(FetchedIds(resp.fetched[1]))
        /\ UniqueKeys(releases)

C2_Witness ==
    /\ obs.recovered
    /\ resp.body[1].removed > 0
    /\ UserInstanceIds(releases, resp.user) = FetchedIds(resp.fetched[1])

\* C3: for a fetched list L of pairwise distinct instance ids, with E the ids
\* the user held before the run and N the ids of L, a completed run returns
\* added = |N \ E|, updated = |N \cap E|, removed = |E \ N|; the three sets are
\* disjoint and cover E \cup N, and added + updated = total = len(L).
C3_Partition ==
    [][(IsSyncOk(resp') /\ DistinctIds(resp'.fetched[1])) =>
        LET E == UserInstanceIds(releases, resp'.user)
            N == FetchedIds(resp'.fetched[1])
            b == resp'.body[1]
        IN  /\ b.added = Cardinality(N \ E)
            /\ b.updated = Cardinality(N \cap E)
            /\ b.removed = Cardinality(E \ N)
            /\ b.added + b.updated + b.removed = Cardinality(E \cup N)
            /\ b.added + b.updated = b.total
            /\ b.total = Len(resp'.fetched[1])]_vars

C3_Witness ==
    /\ IsSyncOk(resp)
    /\ DistinctIds(resp.fetched[1])
    /\ resp.body[1] = Summary(1, 1, 1, 2)

\* C4: a sync of user u, completed or not, inserts, updates and deletes no row
\* of another user, also when the other user holds the instance ids u holds
\* or fetches.
C4_Frame ==
    [][resp'.op = "sync" =>
        {r \in releases' : r.user_id # resp'.user}
            = {r \in releases : r.user_id # resp'.user}]_vars

C4_Witness ==
    /\ IsSyncOk(resp)
    /\ resp.body[1].removed > 0
    /\ resp.body[1].updated > 0
    /\ \E r \in releases :
        /\ r.user_id # resp.user
        /\ r.discogs_instance_id \notin FetchedIds(resp.fetched[1])
    /\ \E r \in releases :
        /\ r.user_id # resp.user
        /\ r.discogs_instance_id \in FetchedIds(resp.fetched[1])

\* C5: for a user without local releases, a sync that fetches 2 items of
\* distinct ids returns {2, 0, 0, 2}; the same 2 items again, {0, 2, 0, 2};
\* then only 1 of the 2, {0, 1, 1, 1}, and exactly that one row is left.
C5_EndToEnd ==
    /\ obs.e2e = 1 => resp.body[1] = Summary(2, 0, 0, 2)
    /\ obs.e2e = 2 => resp.body[1] = Summary(0, 2, 0, 2)
    /\ obs.e2e = 3 =>
        /\ resp.body[1] = Summary(0, 1, 1, 1)
        /\ Cardinality(UserRows(releases, resp.user)) = 1
        /\ UserInstanceIds(releases, resp.user) = FetchedIds(resp.fetched[1])

C5_Witness == obs.e2e = 3

----------------------------------------------------------------------------
(* Status mapping of the sync endpoint                                     *)

\* C10, as claimed: the statuses are 503, 400, 502, 500 and 200, and a user
\* without a stored token or secret gets 400 (or the 500 of another error).
C10_Original ==
    resp.op = "sync" =>
        /\ resp.status \in {503, 400, 502, 500, 200}
        /\ (is_discogs_configured /\ ~Connected(resp.user)) => resp.status \in {400, 500}

\* C10: the sync endpoint answers 503 exactly when the integration is not
\* configured, before any lookup; otherwise 404 when the user has no row, 400
\* when the row lacks the token or the secret, 502 when the fetch raises, 500
\* when the lookup or a store call inside sync_to_database raises, and 200
\* with {added, updated, removed, total} otherwise.
C10_SyncStatus ==
    resp.op = "sync" =>
        /\ resp.status \in {503, 404, 400, 502, 500, 200}
        /\ resp.status = 503 <=> ~is_discogs_configured
        /\ resp.status = 503 => resp.calls = <<>>
        /\ resp.status # 503 => resp.calls[1] = "users.select"
        /\ resp.status = 404 => UserRow(resp.user) = {} /\ resp.calls = <<"users.select">>
        /\ (is_discogs_configured /\ UserRow(resp.user) = {}) => resp.status \in {404, 500}
        /\ resp.status = 400 =>
            /\ UserRow(resp.user) # {} /\ ~Connected(resp.user)
            /\ resp.calls = <<"users.select">>
        /\ (is_discogs_configured /\ UserRow(resp.user) # {} /\ ~Connected(resp.user))
              => resp.status \in {400, 500}
        /\ resp.status = 502 =>
            /\ Connected(resp.user)
            /\ resp.calls = <<"users.select", "discogs.fetch">>
        /\ resp.status = 500 =>
            \/ resp.calls = <<"users.select">>
            \/ /\ Connected(resp.user)
               /\ Len(resp.calls) > 2
               /\ resp.calls[2] = "discogs.fetch"
               /\ resp.calls[3] = "releases.select"
        /\ resp.status = 200 =>
            /\ Connected(resp.user)
            /\ resp.body # None
            /\ DOMAIN resp.body[1] = {"added", "updated", "removed", "total"}
        /\ resp.status # 200 => resp.body = None

C10_Witness ==
    /\ resp.op = "sync"
    /\ resp.status = 404
    /\ resp.detail = "User not found"

----------------------------------------------------------------------------
(* The OAuth state                                                         *)

\* The callback got past the configuration check: it carried a state.
IsCallback(r) == r.op = "callback" /\ r.state # None

ExpiresAt(state) == state.bytes.data.expires_at

\* The arguments of a verifier exchange made with what state encodes.
MaterialOf(state) ==
    Some([request_token |-> state.bytes.data.request_token,
          request_secret |-> state.bytes.data.request_secret,
          oauth_verifier |-> "verifier"])

\* The issued tokens whose bytes a text decodes to.
IssuedBytesOf(text) == {s \in issued : text.form # "garbage" /\ text.bytes = s.bytes}

\* C6, as claimed: a callback that presents an issued token at the very
\* instant of its expires_at is answered "session expired" and makes no
\* verifier exchange.
C6_Original ==
    (IsCallback(resp) /\ resp.state[1] \in issued /\ ExpiresAt(resp.state[1]) = now) =>
        /\ resp.detail = ExpiredStateMsg
        /\ resp.exchange = None

\* C6: at the instant now = expires_at an issued token is not yet expired:
\* the state check passes and the verifier exchange is attempted; the
\* "session expired" answer is given only when now > expires_at.
C6_Boundary ==
    (IsCallback(resp) /\ resp.state[1] \in issued) =>
        /\ ExpiresAt(resp.state[1]) = now =>
            /\ resp.detail \notin {ExpiredStateMsg, InvalidStateMsg}
            /\ resp.exchange = MaterialOf(resp.state[1])
        /\ resp.detail = ExpiredStateMsg => now > ExpiresAt(resp.state[1])

C6_Witness ==
    /\ IsCallback(resp)
    /\ resp.state[1] \in issued
    /\ ExpiresAt(resp.state[1]) = now
    /\ resp.exchange # None

\* C7: a token issued at time t carries expires_at = t + 10 minutes; presented
\* later than t + 10 it is answered "session expired" and the provider is not
\* contacted; presented in [t, t + 10) it passes the state check and the
\* verifier exchange is attempted with the request token pair it encodes.
C7_Lifetime ==
    /\ (resp.op = "authorize" /\ resp.status = 200) =>
        /\ resp.state[1] \in issued
        /\ ExpiresAt(resp.state[1]) = now + StateLifetime
    /\ (IsCallback(resp) /\ resp.state[1] \in issued) =>
        LET t == ExpiresAt(resp.state[1]) - StateLifetime
        IN  /\ now > t + StateLifetime =>
                /\ resp.status = 400
                /\ resp.detail = ExpiredStateMsg
                /\ resp.exchange = None
                /\ resp.calls = <<>>
            /\ (t <= now /\ now < t + StateLifetime) =>
                /\ resp.detail \notin {ExpiredStateMsg, InvalidStateMsg}
                /\ resp.exchange = MaterialOf(resp.state[1])
                /\ resp.calls # <<>>
                /\ resp.calls[1] = "discogs.get_access_token"

C7_Witness ==
    /\ IsCallback(resp)
    /\ resp.state[1] \in issued
    /\ now = ExpiresAt(resp.state[1]) + 1
    /\ resp.detail = ExpiredStateMsg

\* C8, as claimed: every text that differs from the issued tokens is answered
\* "Invalid state parameter".
C8_Original ==
    (IsCallback(resp) /\ resp.state[1] \notin issued) =>
        /\ resp.detail = InvalidStateMsg
        /\ resp.exchange = None

\* C8: every text whose decoded bytes are not the bytes of an issued token (a
\* byte of the token changed, a token made under another key, no token at all)
\* is answered "Invalid state parameter" before the expiry check and the
\* provider; and a verifier exchange is only ever made with the request token
\* pair an issued token encodes.  (A different text of the same bytes is the
\* same token.)
C8_Tamper ==
    IsCallback(resp) =>
        /\ IssuedBytesOf(resp.state[1]) = {} =>
            /\ resp.status = 400
            /\ resp.detail = InvalidStateMsg
            /\ resp.exchange = None
            /\ resp.calls = <<>>
        /\ resp.exchange # None =>
            \E s \in issued : resp.exchange = MaterialOf(s)

C8_Witness ==
    /\ IsCallback(resp)
    /\ \E s \in issued :
        /\ resp.state[1].bytes.key = s.bytes.key
        /\ ~resp.state[1].bytes.intact
        /\ ExpiresAt(s) < now
        /\ ExpiresAt(resp.state[1]) > now
    /\ resp.detail = InvalidStateMsg

----------------------------------------------------------------------------
(* Status mapping of the callback endpoint                                 *)

\* C9, as claimed: the statuses are 503, 400, 404 and 200.
C9_Original ==
    resp.op = "callback" =>
        /\ resp.status \in {503, 400, 404, 200}
        /\ resp.status = 404 => UserRow(resp.user) = {}

\* C9: the callback answers 503 exactly when the integration is not
\* configured, before the state is decoded; 400 when the state is invalid or
\* expired (two distinct messages), the provider rejects the verifier or the
\* identity lookup fails; 500 when the update of the user row raises; 404 when
\* it matches no row; 200 with the updated profile otherwise.
C9_CallbackStatus ==
    /\ InvalidStateMsg # ExpiredStateMsg
    /\ resp.op = "callback" =>
        /\ resp.status \in {503, 400, 404, 500, 200}
        /\ resp.status = 503 <=> ~is_discogs_configured
        /\ resp.status = 503 => resp.calls = <<>> /\ resp.state = None
        /\ resp.status = 400 <=>
              resp.detail \in {InvalidStateMsg, ExpiredStateMsg,
                               ExchangeFailedMsg, IdentityFailedMsg}
        /\ resp.status # 503 =>
            /\ resp.detail = InvalidStateMsg <=> IssuedBytesOf(resp.state[1]) = {}
            /\ resp.detail = ExpiredStateMsg <=>
                  (\E s \in IssuedBytesOf(resp.state[1]) : now > ExpiresAt(s))
            /\ resp.detail = ExchangeFailedMsg =>
                  resp.calls = <<"discogs.get_access_token">>
            /\ resp.detail = IdentityFailedMsg =>
                  resp.calls = <<"discogs.get_access_token", "discogs.identity">>
            /\ resp.status \in {404, 500, 200} =>
                  resp.calls = <<"discogs.get_access_token", "discogs.identity",
                                 "users.update">>
            /\ resp.status = 404 => UserRow(resp.user) = {}
            /\ UserRow(resp.user) = {} => resp.status # 200
            /\ resp.status = 200 =>
                  \E r \in UserRow(resp.user), s \in IssuedBytesOf(resp.state[1]) :
                      /\ r.discogs_access_token
                           = AccessPairFor(s.bytes.data.request_token)[1]
                      /\ r.discogs_access_token_secret
                           = AccessPairFor(s.bytes.data.request_token)[2]
                      /\ r.discogs_connected_at = Some(now)

C9_Witness ==
    /\ resp.op = "callback"
    /\ resp.status = 500
    /\ resp.exchange # None

----------------------------------------------------------------------------
(* Disconnect                                                              *)

\* C11, as claimed: after a disconnect and before the next successful
\* callback of the user, every sync of the user is answered 400.
C11_Original ==
    (resp.op = "sync" /\ resp.user \in cleared) => resp.status = 400

\* A row without credentials, as the disconnect leaves it.
ClearedRow(r) ==
    /\ r.discogs_username = NULL
    /\ r.discogs_access_token = NULL
    /\ r.discogs_access_token_secret = NULL
    /\ r.discogs_connected_at = None

\* C11: a disconnect nulls the four Discogs fields of the user's row and calls
\* the store only, never the provider; from then until a successful callback
\* of that user, a sync of the user fetches nothing and leaves the releases
\* table as it is, and is answered 400 when the integration is configured and
\* the lookup succeeds (503 when it is not configured, 500 when the lookup
\* raises).
C11_DisconnectThenSync ==
    /\ [](/\ resp.op = "disconnect" => resp.calls = <<"users.update">>
          /\ \A u \in cleared : \A r \in UserRow(u) : ClearedRow(r)
          /\ (resp.op = "sync" /\ resp.user \in cleared) =>
                /\ resp.status = (IF ~is_discogs_configured THEN 503
                                  ELSE IF resp.detail = "Internal Server Error" THEN 500
                                  ELSE 400)
                /\ \A k \in 1..Len(resp.calls) : resp.calls[k] = "users.select"
                /\ resp.fetched = None)
    /\ [][(resp'.op = "sync" /\ resp'.user \in cleared) => releases' = releases]_vars

C11_Witness ==
    /\ resp.op = "sync"
    /\ resp.user \in cleared
    /\ resp.status = 400
    /\ issued # {}
    /\ UserRows(releases, resp.user) # {}

----------------------------------------------------------------------------
(* Extraction of collection items                                          *)

\* An item is extracted when its inline summary is well formed or, the
\* listing carrying none, when its release can be fetched and read.
Extracts(item) ==
    IF item.info # None THEN ~item.info[1].malformed
    ELSE item.release.ok /\ ~item.release.malformed

\* C12: whatever the listing of n items, k of which fail extraction (on the
\* inline path or on the fallback path), the fetch returns the records of the
\* n - k other items in the order of the listing and counts k skipped, and
\* it raises nothing: 3 items of which the second fails give 2 records and
\* 1 skipped.
C12_PartialFailure ==
    probe.fn = "fetch_discogs_collection" =>
        LET collection == probe.arg
            good == SelectSeq(collection, Extracts)
            k == Cardinality({j \in 1..Len(collection) : ~Extracts(collection[j])})
        IN  /\ Len(probe.out.releases) = Len(collection) - k
            /\ Len(probe.out.releases) = Len(good)
            /\ \A j \in 1..Len(good) :
                  /\ probe.out.releases[j] = _extract_release_data(good[j]).value
                  /\ probe.out.releases[j].discogs_instance_id = good[j].id
            /\ probe.out.skipped = k
            /\ (Len(collection) = 3 /\ Extracts(collection[1])
                    /\ ~Extracts(collection[2]) /\ Extracts(collection[3]))
                  => /\ Len(probe.out.releases) = 2
                     /\ probe.out.skipped = 1

\* A fetch of three items whose second item fails on the fallback path and
\* whose neighbours come from the two different paths.
C12_Witness ==
    /\ probe.fn = "fetch_discogs_collection"
    /\ Len(probe.arg) = 3
    /\ Extracts(probe.arg[1]) /\ probe.arg[1].info # None
    /\ ~Extracts(probe.arg[2]) /\ probe.arg[2].info = None
    /\ Extracts(probe.arg[3]) /\ probe.arg[3].info = None
    /\ Len(probe.out.releases) = 2
    /\ probe.out.skipped = 1

\* The quantity of a format entry as a number: 1 when the entry states none.
QuantityOf(fmt) ==
    IF fmt.qty \in {ABSENT, NULL, ""} THEN 1
    ELSE CHOOSE q \in 0..3 : fmt.qty = <<"0", "1", "2", "3">>[q + 1]

NameOf(fmt) == IF fmt.name = ABSENT THEN "" ELSE fmt.name

\* The length of the text that joins the given parts.
JoinedLen(parts) ==
    IF parts = <<>> THEN 0
    ELSE Len(parts[1]) + Cardinality({j \in 2..Len(parts) : TRUE})
            + Cardinality({<<j, i>> \in (2..Len(parts)) \X (1..3) : i <= Len(parts[j])})

\* C13: _extract_format_string returns null for the empty list; otherwise
\* the contributions of the entries in order, separated by ', ', where an
\* entry of quantity q and name n contributes 'n' when q <= 1 or q is absent
\* and 'qxn' when q > 1.  [{1,Vinyl}] gives 'Vinyl', [{2,LP}] gives '2xLP',
\* [{2,LP},{1,CD}] gives '2xLP, CD'.
C13_FormatString ==
    probe.fn = "_extract_format_string" =>
        LET formats == probe.arg
            out == probe.out
            contribution == [j \in 1..Len(formats) |->
                                IF QuantityOf(formats[j]) > 1
                                THEN <<formats[j].qty, "x", NameOf(formats[j])>>
                                ELSE <<NameOf(formats[j])>>]
            \* where the j-th contribution starts in the output
            start == [j \in 1..Len(formats) |->
                         JoinedLen(SubSeq(contribution, 1, j)) - Len(contribution[j]) + 1]
        IN  /\ (out = NULL) <=> (formats = <<>>)
            /\ formats # <<>> =>
                  /\ Len(out) = JoinedLen(contribution)
                  /\ \A j \in 1..Len(formats) :
                        /\ SubSeq(out, start[j], start[j] + Len(contribution[j]) - 1)
                              = contribution[j]
                        /\ j > 1 => out[start[j] - 1] = ", "
            /\ formats = <<[qty |-> "1", name |-> "Vinyl"]>> => out = <<"Vinyl">>
            /\ formats = <<[qty |-> "2", name |-> "LP"]>> => out = <<"2", "x", "LP">>
            /\ formats = <<[qty |-> "2", name |-> "LP"], [qty |-> "1", name |-> "CD"]>>
                  => out = <<"2", "x", "LP", ", ", "CD">>

\* '2xLP, CD' has been produced.
C13_Witness ==
    /\ probe.fn = "_extract_format_string"
    /\ probe.arg = <<[qty |-> "2", name |-> "LP"], [qty |-> "1", name |-> "CD"]>>
    /\ probe.out = <<"2", "x", "LP", ", ", "CD">>

\* The label list the extraction of an item reads, on its path.
LabelsOf(item) ==
    IF item.info # None THEN item.info[1].labels ELSE item.release.labels

\* C14: on both extraction paths catalog_number is the first label's catalog
\* number when that value is non-empty and is not the literal 'none', and
\* null otherwise (no labels, empty value, or the 'none' sentinel).
C14_CatalogNumber ==
    (probe.fn = "_extract_release_data" /\ probe.out.kind = "value") =>
        LET labels == LabelsOf(probe.arg)
            catno == IF labels = <<>> THEN NULL ELSE Get(labels[1].catno)
        IN  probe.out.value.catalog_number =
                (IF Truthy(catno) /\ catno # "none" THEN catno ELSE NULL)

\* C15: cover_image_url is the uri of the primary-typed image when the image
\* list has one, else the uri of the first image, else the thumbnail field,
\* else null, on whichever path the item is extracted.  (The inline summary
\* carries no image list: its cover_image field stands for the primary
\* image.)
C15_CoverImage ==
    (probe.fn = "_extract_release_data" /\ probe.out.kind = "value") =>
        LET item == probe.arg
            inline == item.info # None
            thumb == Get(IF inline THEN item.info[1].thumb ELSE item.release.thumb)
            images == IF inline THEN <<>> ELSE item.release.images
            primary == {j \in 1..Len(images) : images[j].type = "primary"}
            cover_image_url == probe.out.value.cover_image_url
        IN  IF inline /\ Truthy(Get(item.info[1].cover_image))
            THEN cover_image_url = item.info[1].cover_image
            ELSE IF primary # {}
            THEN cover_image_url = images[CHOOSE j \in primary : \A i \in primary : j <= i].uri
            ELSE IF images # <<>> THEN cover_image_url = images[1].uri
            ELSE IF Truthy(thumb) THEN cover_image_url = thumb
            ELSE ~Truthy(cover_image_url)

----------------------------------------------------------------------------
(* The search cache                                                        *)

----------------------------------------------------------------------------
(* Release detail                                                          *)

\* C17: the response of GET /releases/{id} to user u reports in_collection,
\* with collection_release_id and discogs_instance_id set, exactly when u's
\* rows in the releases table contain one with that discogs_release_id, and
\* the ids it reports are those of such a row: never another user's, never
\* those of a row that has been removed.
C17_Membership ==
    (resp.op = "detail" /\ resp.status = 200) =>
        LET body == resp.body[1]
            rows == CollectedRows(releases, resp.user, body.discogs_release_id)
        IN  /\ body.in_collection <=> rows # {}
            /\ body.in_collection =>
                  \E r \in rows : /\ body.collection_release_id = Some(r.id)
                                  /\ body.discogs_instance_id = Some(r.discogs_instance_id)
            /\ ~body.in_collection =>
                  /\ body.collection_release_id = None
                  /\ body.discogs_instance_id = None

----------------------------------------------------------------------------
(* Credential lifecycle                                                    *)

\* The stored credential fields of a user.
CredentialsIn(table, user_id) ==
    {<<r.discogs_username, r.discogs_access_token, r.discogs_access_token_secret>> :
        r \in {x \in table : x.id = user_id}}

\* C18: over every sequence of authorize, callback, disconnect and sync
\* requests, the stored token, secret and username of a user change only in a
\* callback of that user that decoded the state, exchanged the verifier and
\* fetched the identity, in that order, and then sets them to the exchanged
\* pair and the fetched username, or in a disconnect of that user, which
\* clears them.  Authorize persists nothing and a callback that fails at any
\* step leaves the users table as it was.
C18_Lifecycle ==
    /\ [][\A u \in UserIds :
            CredentialsIn(users', u) # CredentialsIn(users, u) =>
                /\ resp'.user = u
                /\ resp'.status = 200
                /\ \/ /\ resp'.op = "callback"
                      /\ resp'.calls = <<"discogs.get_access_token", "discogs.identity",
                                         "users.update">>
                      /\ FernetDecrypt(FernetKey(Config.STATE_ENCRYPTION_KEY),
                                       resp'.state[1]).ok
                      /\ resp'.exchange # None
                      /\ \E pair \in {AccessPairFor(resp'.exchange[1].request_token)} :
                            CredentialsIn(users', u) =
                                {<<UsernameFor(pair[1]), pair[1], pair[2]>>}
                   \/ /\ resp'.op = "disconnect"
                      /\ CredentialsIn(users', u) = {<<NULL, NULL, NULL>>}]_vars
    /\ [][resp'.op \in {"authorize", "sync"} => users' = users]_vars
    /\ [][(resp'.op = "callback" /\ resp'.status # 200) => users' = users]_vars

\* A user who disconnected has connected again: the stored pair is the one
\* the callback exchanged.
C18_Witness ==
    /\ resp.op = "callback"
    /\ resp.status = 200
    /\ cleared = {}
    /\ \E pair \in {AccessPairFor(resp.exchange[1].request_token)} :
          CredentialsIn(users, resp.user) = {<<UsernameFor(pair[1]), pair[1], pair[2]>>}

----------------------------------------------------------------------------
(* Classification against the snapshot                                     *)

\* C19: each item of the fetched list counts as added iff its instance id is
\* absent from the user's instance ids as read at the start of the run, and
\* as updated otherwise, whatever earlier items or batches have upserted; a
\* list longer than the batch size of 50 is visited item by item in its own
\* order, so its counts are those of one batch; a new instance id occurring
\* twice counts as added twice.
C19_Snapshot ==
    probe.fn = "sync_to_database" =>
        \A rels \in {probe.arg.rels} :
        \A snapshot \in {UserInstanceIds(probe.arg.table, "u1")} :
            /\ ~probe.out.raised
            /\ probe.out.summary.added =
                  Cardinality({k \in 1..Len(rels) : rels[k].discogs_instance_id \notin snapshot})
            /\ probe.out.summary.updated =
                  Cardinality({k \in 1..Len(rels) : rels[k].discogs_instance_id \in snapshot})
            /\ probe.out.summary.total = Len(rels)
            /\ Len(probe.out.calls) >= 1 + Len(rels)
            /\ \A k \in 1..Len(rels) : probe.out.calls[1 + k] = "releases.upsert"
            /\ (Len(rels) = 2 /\ rels[1] = rels[2]
                    /\ rels[1].discogs_instance_id \notin snapshot)
                  => probe.out.summary.added = 2

\* A run over two batches in which a new id and a stored one alternate: the
\* new one, upserted by the first item, still counts as added in the second
\* batch.
C19_Witness ==
    /\ probe.fn = "sync_to_database"
    /\ Len(probe.arg.rels) = batch_size + 1
    /\ probe.arg.rels[1] = probe.arg.rels[batch_size + 1]
    /\ probe.arg.rels[1].discogs_instance_id \notin UserInstanceIds(probe.arg.table, "u1")
    /\ probe.out.summary.added = (batch_size \div 2) + 1
    /\ probe.out.summary.updated = batch_size \div 2

----------------------------------------------------------------------------
(* Partial failure of a run                                                *)

\* How often a call occurs in a trace.
Count(calls, name) == Cardinality({j \in 1..Len(calls) : calls[j] = name})

\* C20: when the k-th upsert of a run fails the endpoint answers 500, the
\* k - 1 upserts before it remain applied and no row has been deleted, every
\* delete being issued only after all upserts went through; when a delete
\* fails, all upserts and the deletes before it remain applied.
C20_NoRollback ==
    [][(resp'.op = "sync" /\ resp'.fetched # None /\ resp'.body = None) =>
          \A rels \in {resp'.fetched[1]}, u \in {resp'.user} :
          \A k \in {Count(resp'.calls, "releases.upsert")},
             d \in {Count(resp'.calls, "releases.delete")} :
          \A before \in {UserInstanceIds(releases, u)},
             after \in {UserInstanceIds(releases', u)} :
              /\ resp'.status = 500
              /\ SubSeq(resp'.calls, 1, 3) = <<"users.select", "discogs.fetch", "releases.select">>
              /\ Len(resp'.calls) = 3 + k + d
              /\ \A j \in 1..k : resp'.calls[3 + j] = "releases.upsert"
              /\ d > 0 => k = Len(rels)
              /\ UserRows(releases', "u1") \cup UserRows(releases', "u2")
                    = releases'
              /\ \A other \in UserIds \ {u} : UserRows(releases', other) = UserRows(releases, other)
              /\ (k = 0 /\ d = 0) => releases' = releases
              /\ (k > 0 /\ d = 0) =>
                    /\ after = before \cup {rels[j].discogs_instance_id : j \in 1..(k - 1)}
                    /\ \A r \in releases : \E r2 \in releases' : r2.id = r.id
                    /\ \A j \in 1..(k - 1) :
                          \E r \in UserRows(releases', u) :
                              /\ r.discogs_instance_id = rels[j].discogs_instance_id
                              /\ r.updated_at = now
              /\ d > 0 =>
                    /\ FetchedIds(rels) \subseteq after
                    /\ after \subseteq before \cup FetchedIds(rels)
                    /\ (before \ after) \subseteq (before \ FetchedIds(rels))
                    /\ Cardinality(before \ after) = d - 1]_vars

\* A run whose second upsert failed: the first release, new to the user, is
\* stored, the second is not, and a row the list no longer names is still
\* there.
C20_Witness ==
    /\ resp.op = "sync"
    /\ resp.status = 500
    /\ resp.fetched # None
    /\ Len(resp.fetched[1]) = 2
    /\ resp.calls = <<"users.select", "discogs.fetch", "releases.select",
                      "releases.upsert", "releases.upsert">>
    /\ resp.fetched[1][1].discogs_instance_id \in UserInstanceIds(releases, resp.user)
    /\ resp.fetched[1][2].discogs_instance_id \notin UserInstanceIds(releases, resp.user)
    /\ UserInstanceIds(releases, resp.user) \ FetchedIds(resp.fetched[1]) # {}

----------------------------------------------------------------------------
(* Concurrent syncs                                                        *)

\* The upsert a step of run p has just made: the key it wrote.
Upserted(p) ==
    IF runs[p].pc = "upsert" /\ runs'[p].i = runs[p].i + 1
    THEN {<<runs[p].user, BatchedOrder(runs[p].rels, 0)[runs'[p].i].discogs_instance_id>>}
    ELSE {}

\* C21: when two runs of one user interleave between store calls, the value a
\* row holds is the one the latest upsert of its key wrote: an upsert leaves
\* exactly one row of its key, stamped with the time its run read, and no
\* other step changes a row that stays.  (That the interleaving loses a
\* fetched instance, and ends in a store that mirrors neither run, is what
\* C21_Witness reaches.)
C21_LastWriter ==
    [][/\ \A p \in RunNames : \A key \in Upserted(p) :
             \E r \in releases' :
                 /\ r.user_id = key[1] /\ r.discogs_instance_id = key[2]
                 /\ r.updated_at = runs[p].t
                 /\ \A r2 \in releases' :
                       (r2.user_id = key[1] /\ r2.discogs_instance_id = key[2]) => r2 = r
       /\ \A r \in releases' \ releases :
             \E p \in RunNames :
                 /\ <<r.user_id, r.discogs_instance_id>> \in Upserted(p)
                 /\ r.updated_at = runs[p].t]_vars

\* Both runs have returned 'success'; they fetched different lists; an
\* instance of either list is missing from the store, and the store holds
\* the instance set of neither list; a row one run wrote after the other is
\* stamped by the run that wrote last, which read the clock first.
C21_Witness ==
    /\ \A p \in RunNames : runs[p].pc = "done" /\ runs[p].user = "u1"
    /\ FetchedIds(runs["A"].rels) # FetchedIds(runs["B"].rels)
    /\ \A p \in RunNames : FetchedIds(runs[p].rels) \ UserInstanceIds(releases, "u1") # {}
    /\ \A p \in RunNames : UserInstanceIds(releases, "u1") # FetchedIds(runs[p].rels)
    /\ UserInstanceIds(releases, "u1") # {}

\* Two runs that shared a fetched instance: the row carries the stamp of the
\* run that read the clock first, because that run upserted it last.
C21_WitnessStamp ==
    /\ \A p \in RunNames : runs[p].pc = "done"
    /\ runs["A"].t < runs["B"].t
    /\ \E r \in releases :
          /\ r.user_id = "u1" /\ r.updated_at = runs["A"].t
          /\ \E j \in 1..Len(runs["B"].rels) :
                runs["B"].rels[j].discogs_instance_id = r.discogs_instance_id

----------------------------------------------------------------------------
(* The fatal path of the fetch                                             *)

\* The provider failed outside the extraction of a single item.
Fatal(attempt) == ~attempt.identity_ok \/ ~attempt.folder_ok \/ attempt.breaks

\* C22: when the identity call, the access to the folder or the iteration
\* over the listing raises (also after items were extracted), the fetch
\* raises and returns no list; the endpoint answers 502, makes no call on
\* the releases table and leaves the store as it was.  A fetch that meets
\* none of these returns a list and the endpoint does not answer 502.
C22_FatalFetch ==
    [][(probe'.fn = "fetch" /\ resp'.op = "sync") =>
          IF Fatal(probe'.arg)
          THEN /\ probe'.out.kind = "raise"
               /\ probe'.out.value = <<>>
               /\ resp'.status = 502
               /\ resp'.detail = "Failed to fetch Discogs collection"
               /\ resp'.fetched = None
               /\ \A j \in 1..Len(resp'.calls) :
                     resp'.calls[j] \notin {"releases.select", "releases.upsert",
                                            "releases.delete"}
               /\ releases' = releases
          ELSE /\ probe'.out.kind = "value"
               /\ resp'.status # 502]_vars

\* The iteration raised after two items, one of which had been extracted;
\* the user held rows that the two items would have replaced.
C22_Witness ==
    /\ probe.fn = "fetch"
    /\ probe.arg.identity_ok /\ probe.arg.folder_ok /\ probe.arg.breaks
    /\ Len(probe.arg.collection) = 2
    /\ Len(fetch_discogs_collection(probe.arg.collection).releases) = 1
    /\ resp.op = "sync" /\ resp.status = 502
    /\ UserInstanceIds(releases, "u1") = {"i1", "i2"}
    /\ "i3" \in {probe.arg.collection[j].id : j \in 1..2}

----------------------------------------------------------------------------
(* Replay of a state token                                                 *)

\* The token s with another nonce in it, encrypted under the same key.
Renonced(s, nonce) ==
    [s EXCEPT !.bytes.data.nonce = nonce]

----------------------------------------------------------------------------
(* Concurrent lookups                                                      *)

\* C24: the membership test, the remote call and the store of a lookup are
\* one critical section of the cache: two lookups in progress for the same
\* key never both ask the provider at one reading of the timer (the entry
\* the first one stores would have served the second), and no lookup raises
\* KeyError because the entry went between its test and its read.
C24_MutualExclusion ==
    /\ \A p, q \in RunNames :
          (/\ p # q
           /\ runs[p].pc # "idle" /\ runs[q].pc # "idle"
           /\ runs[p].triple = runs[q].triple
           /\ runs[p].called # None /\ runs[q].called # None)
          => runs[p].called # runs[q].called
    /\ \A p \in RunNames : runs[p].out # None => runs[p].out[1].kind # "KeyError"

----------------------------------------------------------------------------
(* Playlists                                                               *)

\* C25: on a playlist the caller owns, remove_track returns True when a
\* track with that id was in the playlist and has been deleted, and False
\* when there was none, the endpoint then answering 404 'Track not found';
\* on a playlist the caller does not own it raises ValueError and deletes
\* nothing.
C25_RemoveResult ==
    [][probe'.fn = "remove_track" /\ resp'.op = "remove_track" =>
          \A arg \in {probe'.arg} :
          \A there \in {{t \in tracks : t.id = arg.track_id
                                         /\ t.playlist_id = arg.playlist_id}} :
              IF get_playlist(arg.playlist_id, arg.user_id) = None
              THEN /\ probe'.out.kind = "ValueError"
                   /\ tracks' = tracks
              ELSE /\ probe'.out.kind = "value"
                   /\ tracks' = tracks \ there
                   /\ probe'.out.value = (there # {})
                   /\ there = {} => /\ resp'.status = 404
                                    /\ resp'.detail = "Track not found"]_vars

\* The largest track_order among the tracks of a playlist (0 without any).
LargestOrder(table, playlist_id) ==
    LET orders == {t.track_order : t \in PlaylistTracks(table, playlist_id)}
    IN  IF orders = {} THEN 0 ELSE CHOOSE m \in orders : \A o \in orders : o <= m

\* C26: add_track on a playlist the caller owns inserts one track whose
\* track_order is 1 when the playlist is empty and otherwise one more than
\* the largest track_order in it; so, adds and removes coming one after the
\* other, the ranks of a playlist are pairwise distinct and grow in the
\* order of insertion.  On a playlist the caller does not own it raises
\* ValueError and inserts nothing.
C26_AddRank ==
    [][/\ (probe'.fn = "add_track" /\ resp'.op = "add_track") =>
             \A arg \in {probe'.arg} :
                 IF get_playlist(arg.playlist_id, arg.user_id) = None
                 THEN /\ probe'.out.kind = "ValueError"
                      /\ resp'.status = 404
                      /\ tracks' = tracks
                 ELSE /\ probe'.out.kind = "value"
                      /\ probe'.out.value.playlist_id = arg.playlist_id
                      /\ probe'.out.value.track_order
                            = LargestOrder(tracks, arg.playlist_id) + 1
                      /\ PlaylistTracks(tracks, arg.playlist_id) = {}
                            => probe'.out.value.track_order = 1
                      /\ probe'.out.value \notin tracks
                      /\ tracks' = tracks \cup {probe'.out.value}
       /\ \A t1, t2 \in tracks' :
             (t1.playlist_id = t2.playlist_id /\ t1.id < t2.id)
                => t1.track_order < t2.track_order]_vars

\* A track added after the last one of the playlist was removed: it takes
\* the rank of the removed one, next to an older track that kept its rank.
C26_Witness ==
    /\ probe.fn = "add_track" /\ probe.out.kind = "value"
    /\ probe.out.value.id = 3 /\ probe.out.value.track_order = 2
    /\ {t.id : t \in PlaylistTracks(tracks, probe.arg.playlist_id)} = {1, 3}

\* C27: after reorder_tracks on an owned playlist with a list that is a
\* permutation of the ids of all its tracks, the ranks are exactly 1..n, the
\* i-th id of the list holding rank i, and the returned list is in that
\* order; whatever the list names, tracks of other playlists included, no
\* track of another playlist is changed.
C27_Reorder ==
    [][(probe'.fn = "reorder_tracks" /\ resp'.op = "reorder_tracks"
            /\ probe'.out.kind = "value") =>
          \A arg \in {probe'.arg} :
          \A ids \in {{t.id : t \in PlaylistTracks(tracks, arg.playlist_id)}} :
              /\ \A t \in tracks : t.playlist_id # arg.playlist_id => t \in tracks'
              /\ \A t \in tracks' : t.playlist_id # arg.playlist_id => t \in tracks
              /\ {t.id : t \in PlaylistTracks(tracks', arg.playlist_id)} = ids
              /\ (Len(arg.track_ids) = Cardinality(ids) /\ Range(arg.track_ids) = ids) =>
                    /\ {t.track_order : t \in PlaylistTracks(tracks', arg.playlist_id)}
                          = 1..Cardinality(ids)
                    /\ \A i \in 1..Len(arg.track_ids) :
                          \E t \in PlaylistTracks(tracks', arg.playlist_id) :
                              t.id = arg.track_ids[i] /\ t.track_order = i
                    /\ Len(probe'.out.value) = Len(arg.track_ids)
                    /\ \A i \in 1..Len(arg.track_ids) :
                          /\ probe'.out.value[i].id = arg.track_ids[i]
                          /\ probe'.out.value[i].track_order = i
                    /\ resp'.status = 200
                    /\ resp'.body = Some(probe'.out.value)]_vars

\* Two tracks of p1 put in the reverse of their insertion order, while p2
\* holds a track.
C27_Witness ==
    /\ probe.fn = "reorder_tracks" /\ probe.out.kind = "value"
    /\ probe.arg.playlist_id = "p1"
    /\ Len(probe.arg.track_ids) = 2
    /\ probe.arg.track_ids[1] > probe.arg.track_ids[2]
    /\ {t.id : t \in PlaylistTracks(tracks, "p1")} = Range(probe.arg.track_ids)
    /\ <<probe.out.value[1].id, probe.out.value[2].id>> = probe.arg.track_ids
    /\ PlaylistTracks(tracks, "p2") # {}

\* A reorder of p1 whose list names a track of p2: that track keeps its rank.
C27_WitnessForeign ==
    /\ probe.fn = "reorder_tracks" /\ probe.out.kind = "value"
    /\ probe.arg.playlist_id = "p1"
    /\ \E t \in PlaylistTracks(tracks, "p2") :
          \E i \in 1..Len(probe.arg.track_ids) :
              probe.arg.track_ids[i] = t.id /\ t.track_order # i

----------------------------------------------------------------------------
(* Collect and uncollect: the provider first                               *)

Last(s) == s[Len(s)]

\* C30: remove_from_collection deletes the local row only after the remote
\* removal went through, and when the remote removal fails it answers 502
\* and leaves the local store (and the folder) as they were;
\* add_to_collection upserts the local row only after the remote add gave an
\* instance, and when a later step fails it answers 502 and does not undo
\* the remote add: the folder holds an instance that has no local row.
C30_RemoteFirst ==
    [][/\ resp'.op = "remove" =>
             /\ releases' # releases =>
                   /\ \E j, k \in 1..Len(resp'.calls) :
                         /\ j < k
                         /\ resp'.calls[j] = "discogs.remove_release"
                         /\ resp'.calls[k] = "releases.delete"
                   /\ \A r \in releases \ releases' :
                         <<r.user_id, r.discogs_instance_id>> \notin collection_folders'
                   /\ releases' \subseteq releases
             /\ (resp'.calls # <<>> /\ Last(resp'.calls) = "discogs.remove_release") =>
                   /\ resp'.status = 502
                   /\ releases' = releases
                   /\ collection_folders' = collection_folders
       /\ resp'.op = "add" =>
             /\ releases' # releases =>
                   /\ \E j, k \in 1..Len(resp'.calls) :
                         /\ j < k
                         /\ resp'.calls[j] = "discogs.add_release"
                         /\ resp'.calls[k] = "releases.upsert"
                   /\ \A r \in releases' \ releases :
                         <<r.user_id, r.discogs_instance_id>>
                             \in collection_folders' \ collection_folders
             /\ (Len(resp'.calls) > 2 /\ resp'.status # 200) =>
                   /\ resp'.status = 502
                   /\ releases' = releases
                   /\ \A j \in 1..Len(resp'.calls) :
                         resp'.calls[j] # "discogs.remove_release"
                   /\ \E i \in InstanceIds :
                         /\ collection_folders'
                               = collection_folders \cup {<<resp'.user, i>>}
                         /\ <<resp'.user, i>> \notin collection_folders
                         /\ i \notin UserInstanceIds(releases', resp'.user)]_vars

\* The upsert of an add raised: the folder holds an instance of u1 that the
\* store has no row for.
C30_Witness ==
    /\ resp.op = "add" /\ resp.status = 502
    /\ Last(resp.calls) = "releases.upsert"
    /\ \E held \in collection_folders :
          held[1] = "u1" /\ held[2] \notin UserInstanceIds(releases, "u1")

\* The remote removal of an uncollect raised: row and instance both remain.
C30_WitnessRemove ==
    /\ resp.op = "remove" /\ resp.status = 502
    /\ Last(resp.calls) = "discogs.remove_release"
    /\ \E r \in releases : <<r.user_id, r.discogs_instance_id>> \in collection_folders

----------------------------------------------------------------------------
(* One row per (user, instance)                                            *)

\* C28: in every reachable state, whatever the interleaving of the store
\* calls of concurrent syncs and of a collect request of the same user, the
\* releases table holds at most one row per (user_id, discogs_instance_id),
\* and one per id: an instance is missing or overwritten, never duplicated.
C28_Uniqueness ==
    /\ UniqueKeys(releases)
    /\ \A u \in UserIds :
          Cardinality(UserRows(releases, u)) = Cardinality(UserInstanceIds(releases, u))

\* Both syncs fetched the instance the collect request added, all three
\* have written it, and the store holds it once.
C28_Witness ==
    /\ \A p \in RunNames :
          /\ runs[p].pc = "done"
          /\ "i3" \in FetchedIds(runs[p].rels)
    /\ collection_folders = {<<"u1", "i3">>}
    /\ resp.op = "add" /\ resp.status = 200
    /\ Cardinality({r \in releases : r.user_id = "u1" /\ r.discogs_instance_id = "i3"}) = 1

----------------------------------------------------------------------------
(* The state token names no user                                           *)

\* The users other than b who asked for the token the callback answered by r
\* presented, the token being one the deployment encrypted, unaltered and
\* not expired at time t.
ForeignRequesters(r, b, t) ==
    {a \in UserIds \ {b} :
        /\ r.op = "callback" /\ r.user = b /\ r.state # None
        /\ <<r.state[1].bytes, a>> \in Requesters(probe)
        /\ FernetDecrypt(FernetKey(Config.STATE_ENCRYPTION_KEY), r.state[1]).ok
        /\ ~Expired(t, r.state[1].bytes.data.expires_at)}

\* C29: a callback made by user b with an unexpired state token that was
\* issued to another user a is not refused on account of the token: the
\* request token pair in it goes to the provider; when the provider accepts
\* the verifier and the identity fetch and the store succeed, the response is
\* 200, b's row holds the access pair of a's request token, the username
\* behind it and the time, and every other row, a's included, is unchanged;
\* when b is answered otherwise no row changes.
C29_StateNotBound ==
    [][\A b \in UserIds :
          ForeignRequesters(resp', b, now) # {} =>
              /\ resp'.detail \notin {InvalidStateMsg, ExpiredStateMsg}
              /\ resp'.exchange =
                    Some([request_token |-> resp'.state[1].bytes.data.request_token,
                          request_secret |-> resp'.state[1].bytes.data.request_secret,
                          oauth_verifier |-> "verifier"])
              /\ resp'.calls = <<"discogs.get_access_token", "discogs.identity", "users.update">>
                    /\ resp'.status \notin {500, 404}
                 => /\ resp'.status = 200
                    /\ \E pair \in {AccessPairFor(resp'.state[1].bytes.data.request_token)} :
                          users' = (users \ UserRow(b)) \cup
                             {[r EXCEPT !.discogs_username = UsernameFor(pair[1]),
                                        !.discogs_access_token = pair[1],
                                        !.discogs_access_token_secret = pair[2],
                                        !.discogs_connected_at = Some(now)] :
                                 r \in UserRow(b)}
                    /\ \A a \in UserIds \ {b} : UserRow(a)' = UserRow(a)
              /\ resp'.status # 200 => users' = users
      ]_vars

\* u2 has called back with the token issued to u1 and was answered 200:
\* u2's row holds the access pair of that request token, u1's row is blank.
C29_Witness ==
    /\ ForeignRequesters(resp, "u2", now) = {"u1"}
    /\ resp.status = 200
    /\ users = {BlankRow("u1"),
                UserRowOf("u2", "name1", "at1", "as1", Some(now))}

====
